---------------------------- MODULE Spec2Model ----------------------------
(***************************************************************************)
(* A model of the market-making backtest engine: the position ledger       *)
(* (position.py), the order model (orders.py), the order manager           *)
(* (order_manager.py), the basic risk strategy                             *)
(* (risk_management_strategies/) and the per-timestamp loop of             *)
(* MarketMakerSimulation.run_simulation (market_maker.py).                 *)
(*                                                                         *)
(* Python floats are modelled as exact rationals <<numerator,              *)
(* denominator>> in lowest terms with a positive denominator; None is the  *)
(* pair <<0, 0>> and float('inf') the pair <<1, 0>>.  Quantities and       *)
(* prices fed to the engine are integers; everything derived from them     *)
(* (entry prices, PnL, fees, wallet, margin, leverage) is a rational.      *)
(***************************************************************************)
EXTENDS Integers, Sequences, FiniteSets, TLC

VARIABLES
    symbols,                    \* self.symbols: the traded symbols, in dict order
    params,                     \* constructor arguments and risk parameters
    N,                          \* len(timestamps)
    prices,                     \* prices[s][t]: the opening price of bar t (1-based sequence)
    positions,                  \* order_manager.positions (shared with the simulation)
    wallet_balance,             \* order_manager.wallet_balance
    active_orders,              \* order_manager.active_orders: symbol -> list of order references
    order_history,              \* order_manager.order_history: list of order references
    orders,                     \* the order objects created so far; a reference is an index
    executed,                   \* the references handed to execute_order, in call order
    sim_wallet_balance,         \* MarketMakerSimulation.wallet_balance
    margin,                     \* self.margin
    per_symbol_margin,          \* self.per_symbol_margin
    current_risk_metrics,       \* self.current_risk_metrics
    bar,                        \* high/low of the bar being processed, per symbol
    filled_orders,              \* run_simulation's local filled_orders
    wallet_balance_history,
    margin_history,
    leverage_history,
    global_leverage_history,
    reservation_price_history,
    spread_history,
    realized_pnl_history,
    price_history,
    t,                          \* the loop index of run_simulation
    k,                          \* the index of the symbol the quoting loop is at
    pc,                         \* where the run (or the caller of the order manager) stands
    last                        \* what the last operation was given and what it returned

vars == <<symbols, params, N, prices, positions, wallet_balance, active_orders,
          order_history, orders, executed, sim_wallet_balance, margin,
          per_symbol_margin, current_risk_metrics, bar, filled_orders,
          wallet_balance_history, margin_history, leverage_history,
          global_leverage_history, reservation_price_history, spread_history,
          realized_pnl_history, price_history, t, k, pc, last>>

---------------------------------------------------------------------------
(* Bounds of the model.                                                    *)

\* the largest number of input timestamps of a run
MaxN == 3
\* the largest price (open, high, low, close, quote level) of the input data
MaxPrice == 3
\* the largest size of a quote level
MaxSize == 2
\* the largest number of execute_order calls in a ledger scenario
MaxExec == 3

---------------------------------------------------------------------------
(* Exact rational arithmetic standing for Python's float arithmetic.       *)

RECURSIVE GCD(_, _)
GCD(a, b) == IF b = 0 THEN a ELSE GCD(b, a % b)

Abs(x) == IF x < 0 THEN -x ELSE x

None == <<0, 0>>
Inf == <<1, 0>>

Norm(n, d) ==
    IF d = 0 THEN None
    ELSE LET s == IF d < 0 THEN -1 ELSE 1
             g == GCD(Abs(n), Abs(d))
         IN  <<(s * n) \div g, (s * d) \div g>>

R(n) == <<n, 1>>
Zero == R(0)
IsNum(a) == a[2] > 0

RAdd(a, b) == IF IsNum(a) /\ IsNum(b) THEN Norm(a[1] * b[2] + b[1] * a[2], a[2] * b[2]) ELSE None
RNeg(a) == <<-a[1], a[2]>>
RSub(a, b) == RAdd(a, RNeg(b))
RMul(a, b) == IF IsNum(a) /\ IsNum(b) THEN Norm(a[1] * b[1], a[2] * b[2]) ELSE None
RDiv(a, b) == IF IsNum(a) /\ IsNum(b) THEN Norm(a[1] * b[2], a[2] * b[1]) ELSE None
RAbs(a) == <<Abs(a[1]), a[2]>>
RLt(a, b) == a[1] * b[2] < b[1] * a[2]
RLe(a, b) == a[1] * b[2] <= b[1] * a[2]

RECURSIVE RSum(_)
RSum(seq) == IF seq = <<>> THEN Zero ELSE RAdd(Head(seq), RSum(Tail(seq)))

Range(seq) == {seq[i] : i \in 1..Len(seq)}

---------------------------------------------------------------------------
(* position.py: the position ledger.                                       *)

\* Position(): the dataclass defaults
NewPosition ==
    [total_realized_pnl |-> Zero, total_fee_paid |-> Zero, unrealized_pnl |-> Zero,
     previous_entry_price |-> None, current_quantity |-> 0]

\* fee_paid = abs(trade_size * execution_price) * fee_rate
fee_of(trade_size, execution_price, fee_rate) ==
    RMul(R(Abs(trade_size * execution_price)), fee_rate)

\* cases 3 and 6: the size-weighted entry price of an increased position
weighted_entry_plain_mean(entry, old, execution_price, trade_size, new) ==
    RDiv(RAdd(entry, R(execution_price)), R(2))
weighted_entry(entry, old, execution_price, trade_size, new) ==
    RDiv(RAdd(RMul(entry, R(Abs(old))), R(execution_price * Abs(trade_size))), R(Abs(new)))

\* cases 4 and 7: the entry price is kept, and cleared when the position is closed
reduced_entry_flat(entry, new) == entry
reduced_entry(entry, new) == IF new = 0 THEN None ELSE entry

\* cases 4 and 7: PnL realized on the closed part of the position
reduce_pnl_long_only(entry, old, execution_price, trade_size) ==
    RMul(R(Abs(trade_size)), RSub(R(execution_price), entry))
reduce_pnl(entry, old, execution_price, trade_size) ==
    IF old > 0
    THEN RMul(R(Abs(trade_size)), RSub(R(execution_price), entry))
    ELSE RMul(R(Abs(trade_size)), RSub(entry, R(execution_price)))

\* cases 5 and 8: PnL realized on the whole old position when it flips
flip_pnl_on_trade(entry, old, execution_price, trade_size) ==
    IF old > 0
    THEN RMul(R(Abs(trade_size)), RSub(R(execution_price), entry))
    ELSE RMul(R(Abs(trade_size)), RSub(entry, R(execution_price)))
flip_pnl(entry, old, execution_price, trade_size) ==
    IF old > 0
    THEN RMul(R(old), RSub(R(execution_price), entry))
    ELSE RMul(R(Abs(old)), RSub(entry, R(execution_price)))

\* the eight cases of execute_position_change and its final else
\* result: whether it raised, the position afterwards, and the returned pair
execute_position_change_lenient(pos, execution_price, old, new, trade_size, fee_rate) ==
    LET fee_paid == fee_of(trade_size, execution_price, fee_rate)
        entry == pos.previous_entry_price
        Done(e, pnl) ==
            [raised |-> FALSE,
             position |-> [pos EXCEPT !.previous_entry_price = e, !.current_quantity = new],
             realized_pnl |-> pnl, fee_paid |-> fee_paid]
    IN  IF old = 0 /\ new > 0 THEN Done(R(execution_price), Zero)
        ELSE IF old = 0 /\ new < 0 THEN Done(R(execution_price), Zero)
        ELSE IF old > 0 /\ new > old
            THEN Done(weighted_entry(entry, old, execution_price, trade_size, new), Zero)
        ELSE IF old > 0 /\ new < old /\ new >= 0
            THEN Done(reduced_entry(entry, new), reduce_pnl(entry, old, execution_price, trade_size))
        ELSE IF old > 0 /\ new < 0
            THEN Done(R(execution_price), flip_pnl(entry, old, execution_price, trade_size))
        ELSE IF old < 0 /\ new < old
            THEN Done(weighted_entry(entry, old, execution_price, trade_size, new), Zero)
        ELSE IF old < 0 /\ new > old /\ new <= 0
            THEN Done(reduced_entry(entry, new), reduce_pnl(entry, old, execution_price, trade_size))
        ELSE IF old < 0 /\ new > 0
            THEN Done(R(execution_price), flip_pnl(entry, old, execution_price, trade_size))
        ELSE Done(entry, Zero)
execute_position_change(pos, execution_price, old, new, trade_size, fee_rate) ==
    LET fee_paid == fee_of(trade_size, execution_price, fee_rate)
        entry == pos.previous_entry_price
        Done(e, pnl) ==
            [raised |-> FALSE,
             position |-> [pos EXCEPT !.previous_entry_price = e, !.current_quantity = new],
             realized_pnl |-> pnl, fee_paid |-> fee_paid]
    IN  IF old = 0 /\ new > 0 THEN Done(R(execution_price), Zero)
        ELSE IF old = 0 /\ new < 0 THEN Done(R(execution_price), Zero)
        ELSE IF old > 0 /\ new > old
            THEN Done(weighted_entry(entry, old, execution_price, trade_size, new), Zero)
        ELSE IF old > 0 /\ new < old /\ new >= 0
            THEN Done(reduced_entry(entry, new), reduce_pnl(entry, old, execution_price, trade_size))
        ELSE IF old > 0 /\ new < 0
            THEN Done(R(execution_price), flip_pnl(entry, old, execution_price, trade_size))
        ELSE IF old < 0 /\ new < old
            THEN Done(weighted_entry(entry, old, execution_price, trade_size, new), Zero)
        ELSE IF old < 0 /\ new > old /\ new <= 0
            THEN Done(reduced_entry(entry, new), reduce_pnl(entry, old, execution_price, trade_size))
        ELSE IF old < 0 /\ new > 0
            THEN Done(R(execution_price), flip_pnl(entry, old, execution_price, trade_size))
        ELSE [raised |-> TRUE, position |-> pos, realized_pnl |-> Zero, fee_paid |-> fee_paid]

\* update_unrealized_pnl: the value it stores and returns
unrealized_pnl_at_unsigned(pos, price) ==
    IF pos.current_quantity = 0 THEN Zero
    ELSE RMul(R(Abs(pos.current_quantity)), RSub(R(price), pos.previous_entry_price))
unrealized_pnl_at(pos, price) ==
    IF pos.current_quantity = 0 THEN Zero
    ELSE IF pos.current_quantity > 0
        THEN RMul(R(pos.current_quantity), RSub(R(price), pos.previous_entry_price))
        ELSE RMul(R(Abs(pos.current_quantity)), RSub(pos.previous_entry_price, R(price)))

update_unrealized_pnl(pos, price) ==
    [pos EXCEPT !.unrealized_pnl = unrealized_pnl_at(pos, price)]

---------------------------------------------------------------------------
(* orders.py: the order model.                                             *)

LimitOrder(timestamp, symbol, side, price, quantity) ==
    [symbol |-> symbol, timestamp |-> timestamp, side |-> side, price |-> price,
     quantity |-> quantity, status |-> "PENDING", order_type |-> "LIMIT", reason |-> ""]

MarketOrder(timestamp, symbol, side, quantity, price, reason) ==
    [symbol |-> symbol, timestamp |-> timestamp, side |-> side, price |-> price,
     quantity |-> quantity, status |-> "PENDING", order_type |-> "MARKET", reason |-> reason]

\* LimitOrder.check_fill: whether the order fills in a bar with this high and low
LimitOrder_check_fill(order, high, low, ticksize) ==
    IF order.status # "PENDING" THEN FALSE
    ELSE IF order.side = "BUY" /\ RLe(R(low), RSub(R(order.price), ticksize)) THEN TRUE
    ELSE IF order.side = "SELL" /\ RLe(RAdd(R(order.price), ticksize), R(high)) THEN TRUE
    ELSE FALSE

---------------------------------------------------------------------------
(* risk_management_strategies: BaseRiskStrategy and BasicRiskStrategy.     *)

RiskMetrics(leverage, current_margin, position_value) ==
    [current_leverage |-> leverage, current_margin |-> current_margin,
     position_value |-> position_value]

\* order_value = order.quantity * current_price
order_value_of(order, current_price) == RMul(R(order.quantity), current_price)

\* the position value the order would leave if it filled at current_price
new_position_value(order, current_price, risk_metrics) ==
    IF order.side = "BUY"
    THEN RAdd(risk_metrics.position_value, order_value_of(order, current_price))
    ELSE RSub(risk_metrics.position_value, order_value_of(order, current_price))

\* BasicRiskStrategy.validate_single_order
validate_single_order_no_leverage(p, order, current_price, risk_metrics, n_symbols) ==
    ~RLt(order_value_of(order, current_price), p.min_order_value_usd)
validate_single_order(p, order, current_price, risk_metrics, n_symbols) ==
    IF RLt(order_value_of(order, current_price), p.min_order_value_usd) THEN FALSE
    ELSE LET new_leverage ==
                 RDiv(RAbs(new_position_value(order, current_price, risk_metrics)),
                      risk_metrics.current_margin)
             max_leverage_per_symbol == RDiv(p.max_leverage, R(n_symbols))
         IN  IF RLt(max_leverage_per_symbol, new_leverage) THEN FALSE ELSE TRUE

\* BasicRiskStrategy.check_emergency_exit: the flags by symbol, and 'Total'
check_emergency_exit_signed_total(p, risk_metrics, n_symbols) ==
    LET emergency_leverage_per_symbol == RDiv(p.emergency_exit_leverage, R(n_symbols))
        syms == DOMAIN risk_metrics
        Lev(s) == risk_metrics[s].current_leverage
        \* abs(inf) >= x holds for every finite x
        needs_exit(s) ==
            IF Lev(s) = Inf THEN TRUE ELSE RLe(emergency_leverage_per_symbol, RAbs(Lev(s)))
        total_leverage ==
            IF \E s \in syms : Lev(s) = Inf THEN Inf
            ELSE RSum([i \in 1..Len(symbols) |-> Lev(symbols[i])])
    IN  [s \in syms \cup {"Total"} |->
            IF s = "Total"
            THEN IF total_leverage = Inf THEN TRUE
                 ELSE RLe(p.max_leverage, total_leverage)
            ELSE needs_exit(s)]
check_emergency_exit(p, risk_metrics, n_symbols) ==
    LET emergency_leverage_per_symbol == RDiv(p.emergency_exit_leverage, R(n_symbols))
        syms == DOMAIN risk_metrics
        Lev(s) == risk_metrics[s].current_leverage
        \* abs(inf) >= x holds for every finite x
        needs_exit(s) ==
            IF Lev(s) = Inf THEN TRUE ELSE RLe(emergency_leverage_per_symbol, RAbs(Lev(s)))
        total_leverage ==
            IF \E s \in syms : Lev(s) = Inf THEN Inf
            ELSE RSum([i \in 1..Len(symbols) |-> Lev(symbols[i])])
    IN  [s \in syms \cup {"Total"} |->
            IF s = "Total"
            THEN IF total_leverage = Inf THEN TRUE
                 ELSE RLe(p.max_leverage, RAbs(total_leverage))
            ELSE needs_exit(s)]

\* BasicRiskStrategy.continue_simulation; "raise" stands for ZeroDivisionError
continue_simulation(p, risk_metrics, initial_margin) ==
    LET total_margin == RSum([i \in 1..Len(symbols) |-> risk_metrics[symbols[i]].current_margin])
    IN  IF initial_margin = Zero THEN "raise"
        ELSE IF RLe(RDiv(total_margin, initial_margin), p.early_stopping_margin)
        THEN "stop" ELSE "continue"

\* BaseRiskStrategy.should_cancel_orders; max_order_age -1 stands for None
should_cancel_orders_strictly_older(p, timestamp, order_timestamp) ==
    IF p.cancel_orders_every_timestamp THEN TRUE
    ELSE IF p.max_order_age # -1 THEN timestamp - order_timestamp > p.max_order_age
    ELSE FALSE
should_cancel_orders(p, timestamp, order_timestamp) ==
    IF p.cancel_orders_every_timestamp THEN TRUE
    ELSE IF p.max_order_age # -1 THEN timestamp - order_timestamp >= p.max_order_age
    ELSE FALSE

---------------------------------------------------------------------------
(* order_manager.py: the order manager.  Its state is handled as a record  *)
(* om; an order reference is an index into om.orders.                      *)

OM ==
    [positions |-> positions, wallet_balance |-> wallet_balance,
     active_orders |-> active_orders, order_history |-> order_history,
     orders |-> orders, executed |-> executed]

\* fee_rate = maker_fee for a LIMIT order, taker_fee otherwise
fee_rate_taker_only(p, order) == p.taker_fee
fee_rate_of(p, order) == IF order.order_type = "LIMIT" THEN p.maker_fee ELSE p.taker_fee

\* trade_size = order.quantity for a BUY, -order.quantity for a SELL
trade_size_of(order) == IF order.side = "BUY" THEN order.quantity ELSE -order.quantity

\* wallet_balance += realized_pnl - fee_paid
wallet_after(wallet, realized_pnl, fee_paid) == RAdd(wallet, RSub(realized_pnl, fee_paid))

\* OrderManager.execute_order; when execute_position_change raises nothing is changed
execute_order(p, om, ref) ==
    LET order == om.orders[ref]
        symbol == order.symbol
        position == om.positions[symbol]
        old_position_size == position.current_quantity
        trade_size == trade_size_of(order)
        updated_position_size == old_position_size + trade_size
        Differs(r) == om.orders[r] # order
        Call(res) ==
            [ref |-> ref, symbol |-> symbol, old |-> position, trade_size |-> trade_size,
             price |-> order.price, order_type |-> order.order_type,
             wallet_before |-> om.wallet_balance,
             realized_pnl |-> res.realized_pnl, fee_paid |-> res.fee_paid,
             raised |-> res.raised]
        Finish(res, call) ==
            IF res.raised
            THEN [raised |-> TRUE, call |-> call, om |-> [om EXCEPT !.executed = Append(@, ref)]]
            ELSE [raised |-> FALSE, call |-> call,
                  om |-> [om EXCEPT
                      !.positions[symbol] =
                          [res.position EXCEPT
                              !.total_realized_pnl = RAdd(@, res.realized_pnl),
                              !.total_fee_paid = RAdd(@, res.fee_paid)],
                      !.wallet_balance = wallet_after(@, res.realized_pnl, res.fee_paid),
                      !.active_orders[symbol] = SelectSeq(@, Differs),
                      !.executed = Append(@, ref)]]
        Update(res) == Finish(res, Call(res))
    IN  Update(execute_position_change(position, order.price, old_position_size,
                                       updated_position_size, trade_size, fee_rate_of(p, order)))

\* execute the references of a list in order, stopping at the first that raises
RECURSIVE execute_all(_, _, _)
execute_all(p, om, refs) ==
    IF refs = <<>> THEN [raised |-> FALSE, om |-> om]
    ELSE LET r == execute_order(p, om, Head(refs))
         IN  IF r.raised THEN [raised |-> TRUE, om |-> r.om]
             ELSE execute_all(p, r.om, Tail(refs))

\* OrderManager.create_market_close_order: <<order>>, or <<>> for None
create_market_close_order(timestamp, symbol, position_size, close_price, reason) ==
    IF Abs(position_size) > 0
    THEN <<MarketOrder(timestamp, symbol, IF position_size > 0 THEN "SELL" ELSE "BUY",
                       Abs(position_size), close_price, reason)>>
    ELSE <<>>

\* the pending quantity of one side among the active orders of a symbol
RECURSIVE pending_quantity(_, _, _)
pending_quantity(om, refs, side) ==
    IF refs = <<>> THEN 0
    ELSE (IF om.orders[Head(refs)].side = side /\ om.orders[Head(refs)].status = "PENDING"
          THEN om.orders[Head(refs)].quantity ELSE 0)
         + pending_quantity(om, Tail(refs), side)

\* OrderManager.get_remaining_capacity
get_remaining_capacity(om, symbol, side, max_position) ==
    LET long_quantity == pending_quantity(om, om.active_orders[symbol], "BUY")
        short_quantity == pending_quantity(om, om.active_orders[symbol], "SELL")
        current_position == om.positions[symbol].current_quantity
    IN  IF side = "BUY"
        THEN RSub(RSub(max_position, R(current_position)), R(long_quantity))
        ELSE RSub(RAdd(max_position, R(current_position)), R(short_quantity))

\* generate_limit_orders, lines 108-132: the candidates of one side
RECURSIVE level_candidates_fitting(_, _, _, _, _)
level_candidates_fitting(levels, capacity, timestamp, symbol, side) ==
    IF levels = <<>> THEN <<>>
    ELSE IF RLe(R(Head(levels).size), capacity)
    THEN <<LimitOrder(timestamp, symbol, side, Head(levels).price, Head(levels).size)>>
         \o level_candidates_fitting(Tail(levels), RSub(capacity, R(Head(levels).size)),
                                     timestamp, symbol, side)
    ELSE level_candidates_fitting(Tail(levels), capacity, timestamp, symbol, side)
RECURSIVE level_candidates(_, _, _, _, _)
level_candidates(levels, capacity, timestamp, symbol, side) ==
    IF levels = <<>> THEN <<>>
    ELSE IF RLt(Zero, capacity)
    THEN <<LimitOrder(timestamp, symbol, side, Head(levels).price, Head(levels).size)>>
         \o level_candidates(Tail(levels), RSub(capacity, R(Head(levels).size)),
                             timestamp, symbol, side)
    ELSE level_candidates(Tail(levels), capacity, timestamp, symbol, side)

\* generate_limit_orders, lines 102-132: potential_orders
potential_orders(om, timestamp, symbol, strategy_output, max_position) ==
    level_candidates(strategy_output.buy_levels,
                     get_remaining_capacity(om, symbol, "BUY", max_position),
                     timestamp, symbol, "BUY")
    \o level_candidates(strategy_output.sell_levels,
                        get_remaining_capacity(om, symbol, "SELL", max_position),
                        timestamp, symbol, "SELL")

\* generate_limit_orders, lines 135-138: the candidates the validator accepts
accepted_orders(p, candidates, reservation_price, risk_metrics, n_symbols) ==
    LET Valid(o) == validate_single_order(p, o, reservation_price, risk_metrics, n_symbols)
    IN  SelectSeq(candidates, Valid)

\* OrderManager.generate_limit_orders: the accepted orders join the active list
\* of the symbol and the history
generate_limit_orders(p, om, timestamp, symbol, strategy_output, current_position, max_position, risk_metrics, n_symbols) ==
    LET accepted == accepted_orders(p,
                        potential_orders(om, timestamp, symbol, strategy_output, max_position),
                        R(strategy_output.reservation_price), risk_metrics, n_symbols)
        refs == [i \in 1..Len(accepted) |-> Len(om.orders) + i]
    IN  [om EXCEPT !.orders = @ \o accepted,
                   !.active_orders[symbol] = @ \o refs,
                   !.order_history = @ \o refs]

\* check_order_fills, lines 221 and 237: the fill test of a long order
long_fills_touch(order, low, ticksize) == RLe(R(low), R(order.price))
long_fills_plus_tick(order, low, ticksize) == RLe(R(low), RAdd(R(order.price), ticksize))
long_fills(order, low, ticksize) == RLe(R(low), RSub(R(order.price), ticksize))

\* check_order_fills, lines 226 and 232: the fill test of a short order
short_fills(order, high, ticksize) == RLe(RAdd(R(order.price), ticksize), R(high))

\* OrderManager.check_order_fills; execute_longs_first is random.random() < 0.5
check_order_fills_shorts_alone(om, symbol, high, low, ticksize, execute_longs_first) ==
    LET active == om.active_orders[symbol]
        IsLong(r) == om.orders[r].side = "BUY" /\ om.orders[r].status = "PENDING"
        IsShort(r) == om.orders[r].side = "SELL" /\ om.orders[r].status = "PENDING"
        LongHit(r) == long_fills(om.orders[r], low, ticksize)
        ShortHit(r) == short_fills(om.orders[r], high, ticksize)
        longs == SelectSeq(SelectSeq(active, IsLong), LongHit)
        shorts == SelectSeq(SelectSeq(active, IsShort), ShortHit)
        filled == IF execute_longs_first THEN longs \o shorts ELSE shorts
    IN  [filled |-> filled,
         om |-> [om EXCEPT !.orders =
                    [r \in DOMAIN @ |->
                        IF r \in Range(filled) THEN [@[r] EXCEPT !.status = "FILLED"] ELSE @[r]]]]
check_order_fills(om, symbol, high, low, ticksize, execute_longs_first) ==
    LET active == om.active_orders[symbol]
        IsLong(r) == om.orders[r].side = "BUY" /\ om.orders[r].status = "PENDING"
        IsShort(r) == om.orders[r].side = "SELL" /\ om.orders[r].status = "PENDING"
        LongHit(r) == long_fills(om.orders[r], low, ticksize)
        ShortHit(r) == short_fills(om.orders[r], high, ticksize)
        longs == SelectSeq(SelectSeq(active, IsLong), LongHit)
        shorts == SelectSeq(SelectSeq(active, IsShort), ShortHit)
        filled == IF execute_longs_first THEN longs \o shorts ELSE shorts \o longs
    IN  [filled |-> filled,
         om |-> [om EXCEPT !.orders =
                    [r \in DOMAIN @ |->
                        IF r \in Range(filled) THEN [@[r] EXCEPT !.status = "FILLED"] ELSE @[r]]]]

\* OrderManager.cancel_old_orders
cancel_old_orders_status_only(p, om, timestamp) ==
    LET Cancel(r) == should_cancel_orders(p, timestamp, om.orders[r].timestamp)
        Keep(r) == ~Cancel(r)
        cancelled == {r \in UNION {Range(om.active_orders[s]) : s \in DOMAIN om.active_orders} :
                         Cancel(r)}
    IN  [om EXCEPT
            !.active_orders = [s \in DOMAIN @ |-> SelectSeq(@[s], Keep) \o SelectSeq(@[s], Cancel)],
            !.orders = [r \in DOMAIN @ |->
                           IF r \in cancelled THEN [@[r] EXCEPT !.status = "CANCELLED"] ELSE @[r]]]
cancel_old_orders(p, om, timestamp) ==
    LET Cancel(r) == should_cancel_orders(p, timestamp, om.orders[r].timestamp)
        Keep(r) == ~Cancel(r)
        cancelled == {r \in UNION {Range(om.active_orders[s]) : s \in DOMAIN om.active_orders} :
                         Cancel(r)}
    IN  [om EXCEPT
            !.active_orders = [s \in DOMAIN @ |-> SelectSeq(@[s], Keep)],
            !.orders = [r \in DOMAIN @ |->
                           IF r \in cancelled THEN [@[r] EXCEPT !.status = "CANCELLED"] ELSE @[r]]]

---------------------------------------------------------------------------
(* market_maker.py: MarketMakerSimulation.                                 *)

Syms == Range(symbols)
n_symbols == Len(symbols)
Last(seq) == seq[Len(seq)]

\* constants.SYMBOL_CONFIGS: ticksize 1.0 for BTCUSDT, 0.5 for ETHUSDT
ticksize_of(symbol) == IF symbol = "BTCUSDT" THEN R(1) ELSE <<1, 2>>

\* opening_prices = {symbol: prices[symbol][t]}
opening_prices == [s \in Syms |-> prices[s][t + 1]]

\* closes[symbol][t]: the price data is gapless, each bar closes where the next
\* one opens (data/brownian.py: "make sure close == next open"); the close of
\* the last bar is never read
closing_prices == [s \in Syms |-> prices[s][t + 2]]

get_position_value(pos, symbol, price) == R(pos[symbol].current_quantity * price)

RECURSIVE sum_position_values(_, _, _)
sum_position_values(pos, syms, price_of) ==
    IF syms = <<>> THEN Zero
    ELSE RAdd(get_position_value(pos, Head(syms), price_of[Head(syms)]),
              sum_position_values(pos, Tail(syms), price_of))

get_per_symbol_leverage(position_value, psm) ==
    IF RLt(Zero, psm) THEN RDiv(position_value, psm) ELSE Inf

get_total_leverage(pos, price_of, m) ==
    IF RLt(Zero, m) THEN RDiv(sum_position_values(pos, symbols, price_of), m) ELSE Inf

calculate_risk_metrics(pos, price_of, psm) ==
    [s \in Syms |->
        RiskMetrics(get_per_symbol_leverage(get_position_value(pos, s, price_of[s]), psm),
                    psm, get_position_value(pos, s, price_of[s]))]

\* run_simulation, lines 370-373: the values computed at the top of the loop body
PreCheck_on_wallet ==
    LET m == wallet_balance
        psm == RDiv(m, R(n_symbols))
    IN  [margin |-> m, per_symbol_margin |-> psm,
         risk_metrics |-> calculate_risk_metrics(positions, opening_prices, psm)]
PreCheck ==
    LET m == IF margin_history # <<>> THEN Last(margin_history) ELSE sim_wallet_balance
        psm == RDiv(m, R(n_symbols))
    IN  [margin |-> m, per_symbol_margin |-> psm,
         risk_metrics |-> calculate_risk_metrics(positions, opening_prices, psm)]

\* _check_margin_conditions: "continue", "stop", or "raise" (ZeroDivisionError)
check_margin_conditions(pre) ==
    LET initial_margin ==
            IF margin_history = <<>> THEN sim_wallet_balance ELSE margin_history[1]
        cs == continue_simulation(params, pre.risk_metrics, initial_margin)
    IN  IF cs = "raise" THEN "raise"
        ELSE IF cs = "stop" THEN "stop"
        ELSE IF RLe(pre.margin, Zero) THEN "stop"
        ELSE "continue"

Zeros(n) == [i \in 1..n |-> Zero]
Repeat(x, n) == [i \in 1..n |-> x]

\* _extend_histories_with_zeros: the histories it extends, by remaining_steps entries
extend_histories_with_zeros(h, remaining_steps) ==
    [h EXCEPT
        !.leverage_history = [s \in Syms |-> @[s] \o Zeros(remaining_steps)],
        !.reservation_price_history = [s \in Syms |-> @[s] \o Zeros(remaining_steps)],
        !.price_history = [s \in Syms |-> @[s] \o Zeros(remaining_steps)],
        !.realized_pnl_history =
            [s \in Syms |->
                @[s] \o Repeat(IF @[s] # <<>> THEN Last(@[s]) ELSE Zero, remaining_steps)],
        !.wallet_balance_history = @ \o Zeros(remaining_steps),
        !.margin_history = @ \o Zeros(remaining_steps)]

\* the history trackers as one record
Histories ==
    [wallet_balance_history |-> wallet_balance_history,
     margin_history |-> margin_history,
     leverage_history |-> leverage_history,
     global_leverage_history |-> global_leverage_history,
     reservation_price_history |-> reservation_price_history,
     spread_history |-> spread_history,
     realized_pnl_history |-> realized_pnl_history,
     price_history |-> price_history]

SetHistories(h) ==
    /\ wallet_balance_history' = h.wallet_balance_history
    /\ margin_history' = h.margin_history
    /\ leverage_history' = h.leverage_history
    /\ global_leverage_history' = h.global_leverage_history
    /\ reservation_price_history' = h.reservation_price_history
    /\ spread_history' = h.spread_history
    /\ realized_pnl_history' = h.realized_pnl_history
    /\ price_history' = h.price_history

SetOM(om) ==
    /\ positions' = om.positions
    /\ wallet_balance' = om.wallet_balance
    /\ active_orders' = om.active_orders
    /\ order_history' = om.order_history
    /\ orders' = om.orders
    /\ executed' = om.executed

\* the loops of _process_emergency_exits and _close_simulation_positions: for each
\* symbol of the list with a non-zero position, create a market close order at
\* the given price and execute it
RECURSIVE close_positions(_, _, _, _, _, _)
close_positions(p, om, syms, timestamp, price_of, reason) ==
    IF syms = <<>> THEN om
    ELSE LET s == Head(syms)
             made == create_market_close_order(timestamp, s,
                         om.positions[s].current_quantity, price_of[s], reason)
             withOrder == [om EXCEPT !.orders = @ \o made]
         IN  IF Abs(om.positions[s].current_quantity) > 0 /\ made # <<>>
             THEN close_positions(p, execute_order(p, withOrder, Len(withOrder.orders)).om,
                                  Tail(syms), timestamp, price_of, reason)
             ELSE close_positions(p, om, Tail(syms), timestamp, price_of, reason)

\* _process_emergency_exits: everything when 'Total' is set, else the flagged symbols
process_emergency_exits_flagged_only(p, om, timestamp, emergency_exits, price_of) ==
    LET Flagged(s) == emergency_exits[s]
    IN  close_positions(p, om, SelectSeq(symbols, Flagged), timestamp, price_of,
                        "Emergency exit - Risk limit exceeded")
process_emergency_exits(p, om, timestamp, emergency_exits, price_of) ==
    LET Flagged(s) == emergency_exits[s]
    IN  IF emergency_exits["Total"]
        THEN close_positions(p, om, symbols, timestamp, price_of,
                             "Emergency exit - Risk limit exceeded")
        ELSE close_positions(p, om, SelectSeq(symbols, Flagged), timestamp, price_of,
                             "Emergency exit - Risk limit exceeded")

RECURSIVE sum_unrealized(_, _)
sum_unrealized(pos, syms) ==
    IF syms = <<>> THEN Zero
    ELSE RAdd(pos[Head(syms)].unrealized_pnl, sum_unrealized(pos, Tail(syms)))

\* _update_end_of_timestamp: the positions marked at the close, the margin, and
\* the entries appended to the histories
update_end_of_timestamp_one_leverage_series(om, h, close_of, psm, m) ==
    LET marked == [s \in Syms |-> update_unrealized_pnl(om.positions[s], close_of[s])]
        total_upnl == sum_unrealized(marked, symbols)
        new_margin == RAdd(om.wallet_balance, total_upnl)
        metrics == calculate_risk_metrics(marked, close_of, psm)
    IN  [positions |-> marked,
         sim_wallet_balance |-> om.wallet_balance,
         risk_metrics |-> metrics,
         histories |->
            [h EXCEPT
                !.realized_pnl_history =
                    [s \in Syms |-> Append(@[s], om.positions[s].total_realized_pnl)],
                !.wallet_balance_history = Append(@, om.wallet_balance),
                !.margin_history = Append(@, new_margin),
                !.leverage_history =
                    [s \in Syms |-> Append(@[s], metrics[s].current_leverage)]]]

update_end_of_timestamp(om, h, close_of, psm, m) ==
    LET marked == [s \in Syms |-> update_unrealized_pnl(om.positions[s], close_of[s])]
        total_upnl == sum_unrealized(marked, symbols)
        new_margin == RAdd(om.wallet_balance, total_upnl)
        metrics == calculate_risk_metrics(marked, close_of, psm)
    IN  [positions |-> marked,
         sim_wallet_balance |-> om.wallet_balance,
         risk_metrics |-> metrics,
         histories |->
            [h EXCEPT
                !.realized_pnl_history =
                    [s \in Syms |-> Append(@[s], om.positions[s].total_realized_pnl)],
                !.wallet_balance_history = Append(@, om.wallet_balance),
                !.margin_history = Append(@, new_margin),
                !.leverage_history =
                    [s \in Syms |-> Append(@[s], metrics[s].current_leverage)],
                !.global_leverage_history =
                    Append(@, get_total_leverage(marked, close_of, m))]]

\* _close_simulation_positions followed by run_simulation lines 396-398
close_simulation_positions(p, om, h, timestamp, price_of) ==
    LET Marked(closed) ==
            [s \in Syms |-> update_unrealized_pnl(closed.positions[s], price_of[s])]
        Result(closed, marked, total_upnl) ==
            [om |-> [closed EXCEPT !.positions = marked],
             assertion_fails |-> total_upnl # Zero,
             sim_wallet_balance |-> closed.wallet_balance,
             histories |->
                [h EXCEPT
                    !.realized_pnl_history =
                        [s \in Syms |-> Append(@[s], closed.positions[s].total_realized_pnl)],
                    !.wallet_balance_history = Append(@, closed.wallet_balance),
                    !.margin_history = Append(@, RAdd(closed.wallet_balance, total_upnl)),
                    !.leverage_history = [s \in Syms |-> Append(@[s], Zero)],
                    !.global_leverage_history = Append(@, Zero),
                    !.reservation_price_history = [s \in Syms |-> Append(@[s], R(price_of[s]))],
                    !.spread_history = [s \in Syms |-> Append(@[s], Zero)]]]
        Measure(closed, marked) == Result(closed, marked, sum_unrealized(marked, symbols))
        After(closed) == Measure(closed, Marked(closed))
    IN  After(close_positions(p, om, symbols, timestamp, price_of, "End of simulation"))

\* run_simulation, lines 404-407: before min_start the reservation price is the
\* opening price and the spread is zero
warm_up_histories_skip_spread(h, open_of) ==
    [h EXCEPT !.reservation_price_history = [s \in Syms |-> Append(@[s], R(open_of[s]))]]
warm_up_histories(h, open_of) ==
    [h EXCEPT !.reservation_price_history = [s \in Syms |-> Append(@[s], R(open_of[s]))],
              !.spread_history = [s \in Syms |-> Append(@[s], Zero)]]

---------------------------------------------------------------------------
(* The inputs of a run: configuration, price data, strategy outputs.       *)

SymbolChoices == {<<"BTCUSDT">>, <<"BTCUSDT", "ETHUSDT">>}

\* constructor arguments (initial_cash, maker_fee, taker_fee, min_start) and
\* DefaultRiskParameters fields, scaled to the price range of the model; the cash
\* grows with the square of the number of symbols n because the per-symbol cap
\* divides both the margin and max_leverage by n
ParamsA(n) ==
    [initial_cash |-> R(4 * n * n), maker_fee |-> Zero, taker_fee |-> Zero, min_start |-> 0,
     max_leverage |-> R(1), min_order_value_usd |-> R(2),
     emergency_exit_leverage |-> R(2), early_stopping_margin |-> <<1, 4>>,
     cancel_orders_every_timestamp |-> TRUE, max_order_age |-> -1]
ParamsB(n) ==
    [ParamsA(n) EXCEPT !.maker_fee = <<1, 8>>, !.taker_fee = <<1, 4>>, !.min_start = 1,
                    !.early_stopping_margin = <<1, 2>>,
                    !.cancel_orders_every_timestamp = FALSE, !.max_order_age = 2]
ParamChoices(n) == {ParamsA(n), ParamsB(n)}

\* the quote levels a strategy may emit around the opening price: at most one
\* level a side, at the opening price or one away from it, of one size
QuotePrices(side, open) ==
    IF side = "BUY" THEN {q \in 1..MaxPrice : open - 1 <= q /\ q <= open}
    ELSE {q \in 1..MaxPrice : open <= q /\ q <= open + 1}

LevelLists(side, open, size) ==
    {<<>>} \cup {<<[price |-> q, size |-> size]>> : q \in QuotePrices(side, open)}

\* StrategyOutput of calculate_order_levels
StrategyOutputs(open) ==
    UNION {{[reservation_price |-> open, buy_levels |-> b, sell_levels |-> a, spread |-> R(1)] :
               b \in LevelLists("BUY", open, z), a \in LevelLists("SELL", open, z)} :
           z \in 1..MaxSize}

\* the high and low of a bar that opens at open and closes at close
HighLows(open, close) ==
    {<<h, l>> : h \in (IF open > close THEN open ELSE close)..MaxPrice,
                l \in 1..(IF open < close THEN open ELSE close)}

---------------------------------------------------------------------------
(* The run of MarketMakerSimulation.run_simulation.                        *)

Init ==
    /\ symbols \in SymbolChoices
    /\ params \in ParamChoices(Len(symbols))
    /\ N \in 0..(IF Len(symbols) = 1 THEN MaxN ELSE MaxN - 1)
    /\ prices \in [Range(symbols) -> [1..N -> 1..MaxPrice]]
    /\ positions = [s \in Range(symbols) |-> NewPosition]
    /\ wallet_balance = params.initial_cash
    /\ sim_wallet_balance = params.initial_cash
    /\ active_orders = [s \in Range(symbols) |-> <<>>]
    /\ order_history = <<>>
    /\ orders = <<>>
    /\ executed = <<>>
    /\ margin = None
    /\ per_symbol_margin = None
    /\ current_risk_metrics = <<>>
    /\ bar = <<>>
    /\ filled_orders = <<>>
    /\ wallet_balance_history = <<>>
    /\ margin_history = <<>>
    /\ leverage_history = [s \in Range(symbols) |-> <<>>]
    /\ global_leverage_history = <<>>
    /\ reservation_price_history = [s \in Range(symbols) |-> <<>>]
    /\ spread_history = [s \in Range(symbols) |-> <<>>]
    /\ realized_pnl_history = [s \in Range(symbols) |-> <<>>]
    /\ price_history = [s \in Range(symbols) |-> <<>>]
    /\ t = 0
    /\ k = 0
    /\ pc = "init"
    /\ last = [op |-> "construct"]

config == <<symbols, params, N, prices>>
om_vars == <<positions, wallet_balance, active_orders, order_history, orders, executed>>
history_vars == <<wallet_balance_history, margin_history, leverage_history,
                  global_leverage_history, reservation_price_history, spread_history,
                  realized_pnl_history, price_history>>
metric_vars == <<margin, per_symbol_margin, current_risk_metrics>>

SetPreCheck(pre) ==
    /\ margin' = pre.margin
    /\ per_symbol_margin' = pre.per_symbol_margin
    /\ current_risk_metrics' = pre.risk_metrics

\* lines 365-366: price_history is set from the price data
BeginRun ==
    /\ pc = "init"
    /\ price_history' = [s \in Syms |-> [i \in 1..N |-> R(prices[s][i])]]
    /\ pc' = "start"
    /\ last' = [op |-> "BeginRun"]
    /\ UNCHANGED <<config, om_vars, metric_vars, sim_wallet_balance, bar, filled_orders,
                   wallet_balance_history, margin_history, leverage_history,
                   global_leverage_history, reservation_price_history, spread_history,
                   realized_pnl_history, t, k>>

\* the range of the loop is exhausted (only when there is no timestamp at all)
LoopExit ==
    /\ pc = "start"
    /\ t >= N
    /\ pc' = "done"
    /\ last' = [op |-> "LoopExit"]
    /\ UNCHANGED <<config, om_vars, metric_vars, history_vars, sim_wallet_balance, bar,
                   filled_orders, t, k>>

\* lines 368-387 when continue_simulation divides by an initial margin of zero
MarginCheckRaises ==
    /\ pc = "start"
    /\ t < N
    /\ check_margin_conditions(PreCheck) = "raise"
    /\ SetPreCheck(PreCheck)
    /\ pc' = "raised"
    /\ last' = [op |-> "MarginCheckRaises", error |-> "ZeroDivisionError"]
    /\ UNCHANGED <<config, om_vars, history_vars, sim_wallet_balance, bar, filled_orders, t, k>>

\* lines 368-389: the margin stop
MarginStop ==
    /\ pc = "start"
    /\ t < N
    /\ check_margin_conditions(PreCheck) = "stop"
    /\ SetPreCheck(PreCheck)
    /\ SetHistories(extend_histories_with_zeros(Histories, N - t))
    /\ pc' = "stopped"
    /\ last' = [op |-> "MarginStop"]
    /\ UNCHANGED <<config, om_vars, sim_wallet_balance, bar, filled_orders, t, k>>

\* lines 368-393 at the last timestamp of a one-timestamp run: margin_history[-1]
\* of an empty list raises IndexError
FinalTimestampRaises ==
    /\ pc = "start"
    /\ t < N
    /\ check_margin_conditions(PreCheck) = "continue"
    /\ t = N - 1
    /\ margin_history = <<>>
    /\ SetPreCheck(PreCheck)
    /\ pc' = "raised"
    /\ last' = [op |-> "FinalTimestampRaises", error |-> "IndexError"]
    /\ UNCHANGED <<config, om_vars, history_vars, sim_wallet_balance, bar, filled_orders, t, k>>

\* lines 368-400 at the last timestamp
FinalTimestamp ==
    /\ pc = "start"
    /\ t < N
    /\ check_margin_conditions(PreCheck) = "continue"
    /\ t = N - 1
    /\ margin_history # <<>>
    /\ SetPreCheck(PreCheck)
    /\ \E r \in {close_simulation_positions(params, OM, Histories, t, opening_prices)} :
           IF RLt(Zero, Last(margin_history))
           THEN /\ SetOM(r.om)
                /\ IF r.assertion_fails
                   THEN /\ pc' = "raised"
                        /\ UNCHANGED <<history_vars, sim_wallet_balance>>
                   ELSE /\ pc' = "done"
                        /\ SetHistories(r.histories)
                        /\ sim_wallet_balance' = r.sim_wallet_balance
           ELSE /\ pc' = "done"
                /\ UNCHANGED <<om_vars, history_vars, sim_wallet_balance>>
    /\ last' = [op |-> "FinalTimestamp"]
    /\ UNCHANGED <<config, bar, filled_orders, t, k>>

\* lines 368-410 before min_start: no quoting, the end-of-timestamp update only
WarmUp ==
    /\ pc = "start"
    /\ t < N - 1
    /\ check_margin_conditions(PreCheck) = "continue"
    /\ t < params.min_start
    /\ LET close_of == closing_prices IN
          LET h == warm_up_histories(Histories, opening_prices)
              u == update_end_of_timestamp(OM, h, close_of, PreCheck.per_symbol_margin,
                                           PreCheck.margin)
          IN  /\ positions' = u.positions
              /\ sim_wallet_balance' = u.sim_wallet_balance
              /\ current_risk_metrics' = u.risk_metrics
              /\ SetHistories(u.histories)
    /\ margin' = PreCheck.margin
    /\ per_symbol_margin' = PreCheck.per_symbol_margin
    /\ t' = t + 1
    /\ pc' = "start"
    /\ last' = [op |-> "WarmUp"]
    /\ UNCHANGED <<config, wallet_balance, active_orders, order_history, orders, executed,
                   bar, filled_orders, k>>

\* lines 368-415 of a trading timestamp: the pre-check and the emergency exits
EmergencyExits ==
    /\ pc = "start"
    /\ t < N - 1
    /\ check_margin_conditions(PreCheck) = "continue"
    /\ t >= params.min_start
    /\ SetPreCheck(PreCheck)
    /\ LET flags == check_emergency_exit(params, PreCheck.risk_metrics, n_symbols)
       IN  /\ SetOM(process_emergency_exits(params, OM, t, flags, opening_prices))
           /\ last' = [op |-> "EmergencyExits", flags |-> flags]
    /\ pc' = "cancel"
    /\ UNCHANGED <<config, history_vars, sim_wallet_balance, bar, filled_orders, t, k>>

\* line 418
CancelOld ==
    /\ pc = "cancel"
    /\ SetOM(cancel_old_orders(params, OM, t))
    /\ pc' = "quote"
    /\ k' = 1
    /\ last' = [op |-> "CancelOld"]
    /\ UNCHANGED <<config, metric_vars, history_vars, sim_wallet_balance, bar,
                   filled_orders, t>>

\* lines 423-425, one iteration: _process_one_symbol and _get_new_order_list for
\* the symbol the loop is at, when its strategy returns so
Quote(so) ==
    /\ LET s == symbols[k]
           open_price == prices[s][t + 1]
           marked == [OM EXCEPT !.positions[s] = update_unrealized_pnl(@, open_price)]
           current_quantity == positions[s].current_quantity
           max_inventory == RDiv(RMul(params.max_leverage, per_symbol_margin), R(open_price))
       IN  /\ SetOM(generate_limit_orders(params, marked, t, s, so, current_quantity,
                                          max_inventory, current_risk_metrics[s],
                                          n_symbols))
           /\ reservation_price_history' =
                  [reservation_price_history EXCEPT ![s] = Append(@, R(so.reservation_price))]
           /\ spread_history' = [spread_history EXCEPT ![s] = Append(@, so.spread)]
           /\ last' = [op |-> "ProcessSymbol", symbol |-> s, output |-> so,
                       max_position |-> max_inventory, before |-> OM]
    /\ IF k = n_symbols THEN pc' = "fills" /\ k' = 1 ELSE pc' = "quote" /\ k' = k + 1
    /\ UNCHANGED <<config, metric_vars, sim_wallet_balance, bar, filled_orders,
                   wallet_balance_history, margin_history, leverage_history,
                   global_leverage_history, realized_pnl_history, price_history, t>>

ProcessSymbol ==
    /\ pc = "quote"
    /\ \E so \in StrategyOutputs(prices[symbols[k]][t + 1]) : Quote(so)

\* lines 429-434, one iteration: check_order_fills for the symbol the loop is at,
\* against a bar of high hl[1] and low hl[2]
Fill(hl, execute_longs_first) ==
    /\ LET s == symbols[k]
       IN  \E r \in {check_order_fills(OM, s, hl[1], hl[2], ticksize_of(s),
                                       execute_longs_first)} :
              /\ SetOM(r.om)
              /\ filled_orders' = filled_orders \o r.filled
              /\ bar' = [x \in DOMAIN bar \cup {s} |-> IF x = s THEN hl ELSE bar[x]]
              /\ last' = [op |-> "CheckFills", symbol |-> s, before |-> orders,
                          returned |-> r.filled]
    /\ IF k = n_symbols THEN pc' = "execute" /\ k' = 0 ELSE pc' = "fills" /\ k' = k + 1
    /\ UNCHANGED <<config, metric_vars, history_vars, sim_wallet_balance, t>>

CheckFills ==
    /\ pc = "fills"
    /\ \E hl \in HighLows(opening_prices[symbols[k]], closing_prices[symbols[k]]),
          execute_longs_first \in BOOLEAN :
          Fill(hl, execute_longs_first)

\* lines 437-438: execute the filled orders, in the order of the list
ExecuteFilled ==
    /\ pc = "execute"
    /\ LET r == execute_all(params, OM, filled_orders)
       IN  /\ SetOM(r.om)
           /\ pc' = IF r.raised THEN "raised" ELSE "eot"
    /\ last' = [op |-> "ExecuteFilled"]
    /\ UNCHANGED <<config, metric_vars, history_vars, sim_wallet_balance, bar,
                   filled_orders, t, k>>

\* line 441: _update_end_of_timestamp with the closes of the bar
EndOfTimestamp ==
    /\ pc = "eot"
    /\ LET close_of == closing_prices IN
          /\ LET u == update_end_of_timestamp(OM, Histories, close_of, per_symbol_margin,
                                              margin)
             IN  /\ positions' = u.positions
                 /\ sim_wallet_balance' = u.sim_wallet_balance
                 /\ current_risk_metrics' = u.risk_metrics
                 /\ SetHistories(u.histories)
          /\ last' = [op |-> "EndOfTimestamp", close |-> close_of]
    /\ t' = t + 1
    /\ pc' = "start"
    /\ bar' = <<>>
    /\ filled_orders' = <<>>
    /\ UNCHANGED <<config, wallet_balance, active_orders, order_history, orders, executed,
                   margin, per_symbol_margin, k>>

Next ==
    \/ BeginRun
    \/ LoopExit
    \/ MarginCheckRaises
    \/ MarginStop
    \/ FinalTimestampRaises
    \/ FinalTimestamp
    \/ WarmUp
    \/ EmergencyExits
    \/ CancelOld
    \/ ProcessSymbol
    \/ CheckFills
    \/ ExecuteFilled
    \/ EndOfTimestamp

Spec == Init /\ [][Next]_vars

---------------------------------------------------------------------------
(* The order manager driven directly: a caller that, starting from a       *)
(* freshly constructed engine, makes one call per timestamp: a limit order *)
(* that fills and is executed, a market close of a position, or a mark to  *)
(* market.                                                                 *)

InitLedger ==
    /\ symbols \in SymbolChoices
    /\ params \in ParamChoices(Len(symbols))
    /\ N = 0
    /\ prices = [s \in Range(symbols) |-> <<>>]
    /\ positions = [s \in Range(symbols) |-> NewPosition]
    /\ wallet_balance = params.initial_cash
    /\ sim_wallet_balance = params.initial_cash
    /\ active_orders = [s \in Range(symbols) |-> <<>>]
    /\ order_history = <<>>
    /\ orders = <<>>
    /\ executed = <<>>
    /\ margin = None
    /\ per_symbol_margin = None
    /\ current_risk_metrics = <<>>
    /\ bar = <<>>
    /\ filled_orders = <<>>
    /\ wallet_balance_history = <<>>
    /\ margin_history = <<>>
    /\ leverage_history = [s \in Range(symbols) |-> <<>>]
    /\ global_leverage_history = <<>>
    /\ reservation_price_history = [s \in Range(symbols) |-> <<>>]
    /\ spread_history = [s \in Range(symbols) |-> <<>>]
    /\ realized_pnl_history = [s \in Range(symbols) |-> <<>>]
    /\ price_history = [s \in Range(symbols) |-> <<>>]
    /\ t = 0
    /\ k = 0
    /\ pc = "ledger"
    /\ last = [op |-> "construct"]

ledger_frame == <<config, metric_vars, history_vars, sim_wallet_balance, bar, filled_orders,
                  k, pc>>

\* a limit order is admitted, fills (check_order_fills marks it FILLED) and is
\* handed to execute_order
LedgerLimitFill ==
    /\ pc = "ledger"
    /\ t < MaxExec
    /\ \E s \in Syms, side \in {"BUY", "SELL"}, price \in 1..MaxPrice, size \in 1..MaxSize :
          LET order == [LimitOrder(t, s, side, price, size) EXCEPT !.status = "FILLED"]
              ref == Len(orders) + 1
              admitted == [OM EXCEPT !.orders = Append(@, order),
                                     !.active_orders[s] = Append(@, ref),
                                     !.order_history = Append(@, ref)]
              r == execute_order(params, admitted, ref)
          IN  /\ SetOM(r.om)
              /\ last' = [op |-> "execute_order", call |-> r.call]
    /\ t' = t + 1
    /\ UNCHANGED ledger_frame

\* create_market_close_order for the position of a symbol, executed when it is
\* not None
LedgerMarketClose ==
    /\ pc = "ledger"
    /\ t < MaxExec
    /\ \E s \in Syms, price \in 1..MaxPrice :
          LET made == create_market_close_order(t, s, positions[s].current_quantity, price,
                                                "Position close")
              withOrder == [OM EXCEPT !.orders = @ \o made]
          IN  IF made = <<>>
              THEN /\ UNCHANGED om_vars
                   /\ last' = [op |-> "market_close", symbol |-> s, made |-> made]
              ELSE LET r == execute_order(params, withOrder, Len(withOrder.orders))
                   IN  /\ SetOM(r.om)
                       /\ last' = [op |-> "market_close", symbol |-> s, made |-> made,
                                   call |-> r.call]
    /\ t' = t + 1
    /\ UNCHANGED ledger_frame

\* Position.update_unrealized_pnl at some price
LedgerMark ==
    /\ pc = "ledger"
    /\ t < MaxExec
    /\ \E s \in Syms, price \in 1..MaxPrice :
          /\ positions' = [positions EXCEPT ![s] = update_unrealized_pnl(@, price)]
          /\ last' = [op |-> "update_unrealized_pnl", symbol |-> s, price |-> price]
    /\ t' = t + 1
    /\ UNCHANGED <<ledger_frame, wallet_balance, active_orders, order_history, orders,
                   executed>>

NextLedger ==
    \/ LedgerLimitFill
    \/ LedgerMarketClose
    \/ LedgerMark

SpecLedger == InitLedger /\ [][NextLedger]_vars

\* a limit order of quantity 0 is admitted, marked FILLED and handed to
\* execute_order; the exception of execute_position_change ends the calls
LedgerZeroFill ==
    /\ pc = "ledger"
    /\ t < MaxExec
    /\ \E s \in Syms, side \in {"BUY", "SELL"}, price \in 1..MaxPrice :
          LET order == [LimitOrder(t, s, side, price, 0) EXCEPT !.status = "FILLED"]
              ref == Len(orders) + 1
              admitted == [OM EXCEPT !.orders = Append(@, order),
                                     !.active_orders[s] = Append(@, ref),
                                     !.order_history = Append(@, ref)]
          IN  \E r \in {execute_order(params, admitted, ref)} :
                 /\ SetOM(r.om)
                 /\ last' = [op |-> "execute_order", call |-> r.call, before |-> admitted]
                 /\ pc' = IF r.raised THEN "raised" ELSE "ledger"
    /\ t' = t + 1
    /\ UNCHANGED <<config, metric_vars, history_vars, sim_wallet_balance, bar,
                   filled_orders, k>>

NextLedgerZero ==
    \/ NextLedger
    \/ LedgerZeroFill

SpecLedgerZero == InitLedger /\ [][NextLedgerZero]_vars

\* the ledger under every sign of maker_fee and taker_fee the constructor
\* accepts: OrderManager.__init__ stores the two rates unchecked
FeeRates == {<<<<-1, 8>>, <<-1, 4>>>>, <<<<-1, 8>>, <<1, 4>>>>, <<Zero, Zero>>,
             <<<<1, 8>>, <<1, 4>>>>}
FeeParamChoices(n) ==
    {[ParamsA(n) EXCEPT !.maker_fee = f[1], !.taker_fee = f[2]] : f \in FeeRates}

InitLedgerFees ==
    /\ symbols \in SymbolChoices
    /\ params \in FeeParamChoices(Len(symbols))
    /\ N = 0
    /\ prices = [s \in Range(symbols) |-> <<>>]
    /\ positions = [s \in Range(symbols) |-> NewPosition]
    /\ wallet_balance = params.initial_cash
    /\ sim_wallet_balance = params.initial_cash
    /\ active_orders = [s \in Range(symbols) |-> <<>>]
    /\ order_history = <<>>
    /\ orders = <<>>
    /\ executed = <<>>
    /\ margin = None
    /\ per_symbol_margin = None
    /\ current_risk_metrics = <<>>
    /\ bar = <<>>
    /\ filled_orders = <<>>
    /\ wallet_balance_history = <<>>
    /\ margin_history = <<>>
    /\ leverage_history = [s \in Range(symbols) |-> <<>>]
    /\ global_leverage_history = <<>>
    /\ reservation_price_history = [s \in Range(symbols) |-> <<>>]
    /\ spread_history = [s \in Range(symbols) |-> <<>>]
    /\ realized_pnl_history = [s \in Range(symbols) |-> <<>>]
    /\ price_history = [s \in Range(symbols) |-> <<>>]
    /\ t = 0
    /\ k = 0
    /\ pc = "ledger"
    /\ last = [op |-> "construct"]

NextLedgerFees ==
    \/ LedgerLimitFill
    \/ LedgerMarketClose
    \/ LedgerMark

SpecLedgerFees == InitLedgerFees /\ [][NextLedgerFees]_vars

---------------------------------------------------------------------------
(* The order manager driven directly: quotes of several levels a side are  *)
(* handed to generate_limit_orders, bars are handed to check_order_fills   *)
(* and the fills to execute_order, and cancel_old_orders is called as the  *)
(* timestamp advances.                                                     *)

\* the number of calls of generate_limit_orders made on the driven order manager
MaxCalls == 2
\* the last timestamp of the driven order manager
MaxTicks == 2

\* quote levels walking away from the reservation price, each with its own
\* size: at most one level in the first call, at most two afterwards
QuoteLevelLists(side, reservation_price, calls) ==
    LET away == IF side = "BUY" THEN reservation_price - 1 ELSE reservation_price + 1
        Level(price, size) == [price |-> price, size |-> size]
    IN  {<<>>}
        \cup {<<Level(reservation_price, z)>> : z \in 1..MaxSize}
        \cup (IF calls = 0 THEN {}
              ELSE {<<Level(reservation_price, z), Level(away, y)>> :
                       z \in 1..MaxSize, y \in 1..MaxSize})

\* the max_position of a call: whole and fractional asset units
MaxPositions == {<<3, 2>>, R(3)}

\* the parameter sets of the runs, and one that never cancels an order
OrdersParamChoices ==
    ParamChoices(1) \cup {[ParamsB(1) EXCEPT !.max_order_age = -1]}

InitOrders ==
    /\ symbols = <<"BTCUSDT">>
    /\ params \in OrdersParamChoices
    /\ N = 0
    /\ prices = [s \in Range(symbols) |-> <<>>]
    /\ positions = [s \in Range(symbols) |-> NewPosition]
    /\ wallet_balance = params.initial_cash
    /\ sim_wallet_balance = params.initial_cash
    /\ active_orders = [s \in Range(symbols) |-> <<>>]
    /\ order_history = <<>>
    /\ orders = <<>>
    /\ executed = <<>>
    /\ margin = None
    /\ per_symbol_margin = None
    /\ current_risk_metrics = <<>>
    /\ bar = <<>>
    /\ filled_orders = <<>>
    /\ wallet_balance_history = <<>>
    /\ margin_history = <<>>
    /\ leverage_history = [s \in Range(symbols) |-> <<>>]
    /\ global_leverage_history = <<>>
    /\ reservation_price_history = [s \in Range(symbols) |-> <<>>]
    /\ spread_history = [s \in Range(symbols) |-> <<>>]
    /\ realized_pnl_history = [s \in Range(symbols) |-> <<>>]
    /\ price_history = [s \in Range(symbols) |-> <<>>]
    /\ t = 0
    /\ k = 0
    /\ pc = "orders"
    /\ last = [op |-> "construct"]

orders_frame == <<config, metric_vars, history_vars, sim_wallet_balance, bar, filled_orders, pc>>

\* generate_limit_orders for a quote of up to two levels a side
OrdersGenerate ==
    /\ pc = "orders"
    /\ k < MaxCalls
    /\ \E s \in Syms, reservation_price \in 1..2, max_position \in MaxPositions :
       \E b \in QuoteLevelLists("BUY", reservation_price, k),
          a \in QuoteLevelLists("SELL", reservation_price, k) :
          LET so == [reservation_price |-> reservation_price, buy_levels |-> b,
                     sell_levels |-> a, spread |-> R(1)]
              psm == RDiv(wallet_balance, R(n_symbols))
              metrics == calculate_risk_metrics(positions,
                             [x \in Syms |-> reservation_price], psm)[s]
          IN  /\ b # <<>> \/ a # <<>>
              /\ SetOM(generate_limit_orders(params, OM, t, s, so,
                                             positions[s].current_quantity, max_position,
                                             metrics, n_symbols))
              /\ last' = [op |-> "generate_limit_orders", symbol |-> s, output |-> so,
                          max_position |-> max_position, risk_metrics |-> metrics,
                          before |-> OM]
    /\ k' = k + 1
    /\ UNCHANGED <<orders_frame, t>>

\* check_order_fills on a bar, and execute_order for each order it returns
OrdersCheckFills ==
    /\ pc = "orders"
    /\ k < MaxCalls
    /\ \E s \in Syms, high \in 1..MaxPrice, low \in 1..MaxPrice, execute_longs_first \in BOOLEAN :
          /\ low <= high
          /\ \E r \in {check_order_fills(OM, s, high, low, ticksize_of(s), execute_longs_first)} :
                /\ r.filled # <<>>
                /\ SetOM(execute_all(params, r.om, r.filled).om)
                /\ last' = [op |-> "check_order_fills", symbol |-> s, returned |-> r.filled]
    /\ UNCHANGED <<orders_frame, t, k>>

\* cancel_old_orders at the current timestamp
OrdersCancel ==
    /\ pc = "orders"
    /\ \E s \in Syms : active_orders[s] # <<>>
    /\ SetOM(cancel_old_orders(params, OM, t))
    /\ last' = [op |-> "cancel_old_orders", timestamp |-> t, before |-> OM]
    /\ UNCHANGED <<orders_frame, t, k>>

\* the next timestamp
OrdersTick ==
    /\ pc = "orders"
    /\ t < MaxTicks
    /\ t' = t + 1
    /\ last' = [op |-> "tick"]
    /\ UNCHANGED <<orders_frame, om_vars, k>>

NextOrders ==
    \/ OrdersGenerate
    \/ OrdersCheckFills
    \/ OrdersCancel
    \/ OrdersTick

SpecOrders == InitOrders /\ [][NextOrders]_vars

---------------------------------------------------------------------------
(* check_emergency_exit applied to the risk metrics of one or two symbols. *)

\* the largest position value of a symbol handed to check_emergency_exit
MaxValue == 4

\* the risk metrics _calculate_risk_metrics builds from the position values of
\* the symbols and the per-symbol margin
RiskMetricChoices ==
    {[s \in Syms |->
         RiskMetrics(get_per_symbol_leverage(R(value[s]), psm), psm, R(value[s]))] :
        value \in [Syms -> (-MaxValue)..MaxValue], psm \in {R(1), R(2)}}

InitEmergency ==
    /\ symbols \in SymbolChoices
    /\ params \in ParamChoices(Len(symbols))
    /\ N = 0
    /\ prices = [s \in Range(symbols) |-> <<>>]
    /\ positions = [s \in Range(symbols) |-> NewPosition]
    /\ wallet_balance = params.initial_cash
    /\ sim_wallet_balance = params.initial_cash
    /\ active_orders = [s \in Range(symbols) |-> <<>>]
    /\ order_history = <<>>
    /\ orders = <<>>
    /\ executed = <<>>
    /\ margin = None
    /\ per_symbol_margin = None
    /\ current_risk_metrics \in RiskMetricChoices
    /\ bar = <<>>
    /\ filled_orders = <<>>
    /\ wallet_balance_history = <<>>
    /\ margin_history = <<>>
    /\ leverage_history = [s \in Range(symbols) |-> <<>>]
    /\ global_leverage_history = <<>>
    /\ reservation_price_history = [s \in Range(symbols) |-> <<>>]
    /\ spread_history = [s \in Range(symbols) |-> <<>>]
    /\ realized_pnl_history = [s \in Range(symbols) |-> <<>>]
    /\ price_history = [s \in Range(symbols) |-> <<>>]
    /\ t = 0
    /\ k = 0
    /\ pc = "metrics"
    /\ last = [op |-> "construct"]

\* BasicRiskStrategy.check_emergency_exit on the current risk metrics
CheckEmergencyExit ==
    /\ pc = "metrics"
    /\ pc' = "flags"
    /\ last' = [op |-> "check_emergency_exit",
                flags |-> check_emergency_exit(params, current_risk_metrics, n_symbols)]
    /\ UNCHANGED <<config, om_vars, metric_vars, history_vars, sim_wallet_balance, bar,
                   filled_orders, t, k>>

NextEmergency == CheckEmergencyExit

SpecEmergency == InitEmergency /\ [][NextEmergency]_vars

---------------------------------------------------------------------------
(* Runs of two symbols over three bars in which the strategy quotes in the *)
(* first bar only: the positions it builds are carried into the second     *)
(* bar, where the emergency exits are evaluated.  The margin stop, the     *)
(* warm-up and the exceptions are not steps of these runs.                 *)

\* the opening prices of a symbol: a rise through the first bar, or no move
ExitsPricePaths == {<<1, 3, 3>>, <<2, 2, 2>>, <<3, 3, 3>>}

\* the quote of a timestamp after the first: no level
NoQuote(open) ==
    [reservation_price |-> open, buy_levels |-> <<>>, sell_levels |-> <<>>, spread |-> R(1)]

InitExits ==
    /\ symbols = <<"BTCUSDT", "ETHUSDT">>
    /\ params = ParamsA(2)
    /\ N = 3
    /\ prices \in [Range(symbols) -> ExitsPricePaths]
    /\ positions = [s \in Range(symbols) |-> NewPosition]
    /\ wallet_balance = params.initial_cash
    /\ sim_wallet_balance = params.initial_cash
    /\ active_orders = [s \in Range(symbols) |-> <<>>]
    /\ order_history = <<>>
    /\ orders = <<>>
    /\ executed = <<>>
    /\ margin = None
    /\ per_symbol_margin = None
    /\ current_risk_metrics = <<>>
    /\ bar = <<>>
    /\ filled_orders = <<>>
    /\ wallet_balance_history = <<>>
    /\ margin_history = <<>>
    /\ leverage_history = [s \in Range(symbols) |-> <<>>]
    /\ global_leverage_history = <<>>
    /\ reservation_price_history = [s \in Range(symbols) |-> <<>>]
    /\ spread_history = [s \in Range(symbols) |-> <<>>]
    /\ realized_pnl_history = [s \in Range(symbols) |-> <<>>]
    /\ price_history = [s \in Range(symbols) |-> <<>>]
    /\ t = 0
    /\ k = 0
    /\ pc = "init"
    /\ last = [op |-> "construct"]

ExitsProcessSymbol ==
    /\ pc = "quote"
    /\ \E so \in (IF t = 0 THEN StrategyOutputs(prices[symbols[k]][t + 1])
                  ELSE {NoQuote(prices[symbols[k]][t + 1])}) :
          Quote(so)

NextExits ==
    \/ BeginRun
    \/ EmergencyExits
    \/ CancelOld
    \/ ExitsProcessSymbol
    \/ CheckFills
    \/ ExecuteFilled
    \/ EndOfTimestamp
    \/ FinalTimestamp

SpecExits == InitExits /\ [][NextExits]_vars

---------------------------------------------------------------------------
(* The run over more bars than an order may live: two symbols at a         *)
(* constant price, the cancel policies of should_cancel_orders, quotes     *)
(* that rest in the book.                                                  *)

AgingBars == 4
MaxAge == 2
AgingPrice == 2

AgingPricePaths == {[i \in 1..AgingBars |-> AgingPrice]}

\* cancel at every timestamp, or after max_order_age timestamps
AgingParamChoices ==
    {ParamsA(2)}
    \cup {[ParamsA(2) EXCEPT !.cancel_orders_every_timestamp = FALSE, !.max_order_age = a] :
             a \in 1..MaxAge}

\* the first symbol quotes no level or one level a side of size 1 at the
\* open, the second one buy level at the first timestamp and none later
AgingOutputs(s, open) ==
    LET Output(b, a) ==
            [reservation_price |-> open, buy_levels |-> b, sell_levels |-> a, spread |-> R(1)]
        level == <<[price |-> open, size |-> 1]>>
    IN  IF s = symbols[1] THEN {Output(b, a) : b \in {<<>>, level}, a \in {<<>>, level}}
        ELSE IF t = 0 THEN {NoQuote(open), Output(level, <<>>)}
        ELSE {NoQuote(open)}

\* a bar that stays at the open and a bar that trades through every quote
AgingHighLows(open) == {<<open, open>>, <<open + 1, open - 1>>}

InitAging ==
    /\ symbols = <<"BTCUSDT", "ETHUSDT">>
    /\ params \in AgingParamChoices
    /\ N = AgingBars
    /\ prices \in [Range(symbols) -> AgingPricePaths]
    /\ positions = [s \in Range(symbols) |-> NewPosition]
    /\ wallet_balance = params.initial_cash
    /\ sim_wallet_balance = params.initial_cash
    /\ active_orders = [s \in Range(symbols) |-> <<>>]
    /\ order_history = <<>>
    /\ orders = <<>>
    /\ executed = <<>>
    /\ margin = None
    /\ per_symbol_margin = None
    /\ current_risk_metrics = <<>>
    /\ bar = <<>>
    /\ filled_orders = <<>>
    /\ wallet_balance_history = <<>>
    /\ margin_history = <<>>
    /\ leverage_history = [s \in Range(symbols) |-> <<>>]
    /\ global_leverage_history = <<>>
    /\ reservation_price_history = [s \in Range(symbols) |-> <<>>]
    /\ spread_history = [s \in Range(symbols) |-> <<>>]
    /\ realized_pnl_history = [s \in Range(symbols) |-> <<>>]
    /\ price_history = [s \in Range(symbols) |-> <<>>]
    /\ t = 0
    /\ k = 0
    /\ pc = "init"
    /\ last = [op |-> "construct"]

AgingProcessSymbol ==
    /\ pc = "quote"
    /\ \E so \in AgingOutputs(symbols[k], prices[symbols[k]][t + 1]) : Quote(so)

AgingCheckFills ==
    /\ pc = "fills"
    /\ \E hl \in AgingHighLows(opening_prices[symbols[k]]), execute_longs_first \in BOOLEAN :
          Fill(hl, execute_longs_first)

NextAging ==
    \/ BeginRun
    \/ EmergencyExits
    \/ CancelOld
    \/ AgingProcessSymbol
    \/ AgingCheckFills
    \/ ExecuteFilled
    \/ EndOfTimestamp
    \/ FinalTimestamp

SpecAging == InitAging /\ [][NextAging]_vars

---------------------------------------------------------------------------
(* The end-to-end scenario: one symbol, bars that never move, and a        *)
(* strategy that always quotes one tick-size-1 level a side, one below and *)
(* one above the price.  The margin stop, the exceptions and the empty     *)
(* loop are not steps of this run: the margin never leaves the initial     *)
(* cash and there are at least two bars.                                   *)

\* the number of bars of the scenario
ScenarioBars == 20
\* the constant open = high = low = close of the scenario
ScenarioPrice == 100
\* the initial cash of the scenario
ScenarioCash == 1000

\* DefaultRiskParameters as they are, maker fee 0
ScenarioParams(min_start) ==
    [initial_cash |-> R(ScenarioCash), maker_fee |-> Zero, taker_fee |-> Zero,
     min_start |-> min_start, max_leverage |-> R(1), min_order_value_usd |-> R(10),
     emergency_exit_leverage |-> R(2), early_stopping_margin |-> <<1, 10>>,
     cancel_orders_every_timestamp |-> TRUE, max_order_age |-> -1]

\* the strategy of the scenario: buy one below, sell one above, size 1
ScenarioOutput ==
    [reservation_price |-> ScenarioPrice,
     buy_levels |-> <<[price |-> ScenarioPrice - 1, size |-> 1]>>,
     sell_levels |-> <<[price |-> ScenarioPrice + 1, size |-> 1]>>,
     spread |-> R(2)]

InitScenario ==
    /\ symbols = <<"BTCUSDT">>
    /\ params \in {ScenarioParams(0), ScenarioParams(5)}
    /\ N = ScenarioBars
    /\ prices = [s \in Range(symbols) |-> [i \in 1..N |-> ScenarioPrice]]
    /\ positions = [s \in Range(symbols) |-> NewPosition]
    /\ wallet_balance = params.initial_cash
    /\ sim_wallet_balance = params.initial_cash
    /\ active_orders = [s \in Range(symbols) |-> <<>>]
    /\ order_history = <<>>
    /\ orders = <<>>
    /\ executed = <<>>
    /\ margin = None
    /\ per_symbol_margin = None
    /\ current_risk_metrics = <<>>
    /\ bar = <<>>
    /\ filled_orders = <<>>
    /\ wallet_balance_history = <<>>
    /\ margin_history = <<>>
    /\ leverage_history = [s \in Range(symbols) |-> <<>>]
    /\ global_leverage_history = <<>>
    /\ reservation_price_history = [s \in Range(symbols) |-> <<>>]
    /\ spread_history = [s \in Range(symbols) |-> <<>>]
    /\ realized_pnl_history = [s \in Range(symbols) |-> <<>>]
    /\ price_history = [s \in Range(symbols) |-> <<>>]
    /\ t = 0
    /\ k = 0
    /\ pc = "init"
    /\ last = [op |-> "construct"]

ScenarioProcessSymbol ==
    /\ pc = "quote"
    /\ Quote(ScenarioOutput)

ScenarioCheckFills ==
    /\ pc = "fills"
    /\ \E execute_longs_first \in BOOLEAN :
          Fill(<<ScenarioPrice, ScenarioPrice>>, execute_longs_first)

NextScenario ==
    \/ BeginRun
    \/ WarmUp
    \/ EmergencyExits
    \/ CancelOld
    \/ ScenarioProcessSymbol
    \/ ScenarioCheckFills
    \/ ExecuteFilled
    \/ EndOfTimestamp
    \/ FinalTimestamp

SpecScenario == InitScenario /\ [][NextScenario]_vars

---------------------------------------------------------------------------
(* Properties of the position ledger and the order manager, checked under  *)
(* SpecLedger.                                                             *)

\* the call record of the last operation, when it called execute_order
HasCall == last.op \in {"execute_order", "market_close"} /\ "call" \in DOMAIN last

\* the references handed to execute_order for a symbol, in call order
ExecutedOf(s) ==
    LET OfSymbol(r) == orders[r].symbol = s
    IN  SelectSeq(executed, OfSymbol)

\* C2: for every symbol, after any sequence of executed orders from a fresh
\* engine, previous_entry_price is None if and only if current_quantity is 0.
C2_EntryNoneIffFlat ==
    \A s \in Syms :
        (positions[s].previous_entry_price = None) <=> (positions[s].current_quantity = 0)

\* a position that was opened and then brought back to flat
C2_Witness ==
    \E s \in Syms :
        /\ Len(ExecutedOf(s)) >= 2
        /\ positions[s].current_quantity = 0
        /\ positions[s].previous_entry_price = None
        /\ \E o \in Syms : positions[o].current_quantity # 0

\* C3: the wallet balance equals the initial cash plus the realized PnL of all
\* symbols minus the fees of all symbols; each execution adds realized_pnl -
\* fee_paid to the wallet, with fee_paid = quantity * order price * fee rate,
\* the maker rate for a LIMIT order and the taker rate for a MARKET order.
C3_WalletIdentity ==
    /\ wallet_balance =
           RSub(RAdd(params.initial_cash,
                     RSum([i \in 1..Len(symbols) |-> positions[symbols[i]].total_realized_pnl])),
                RSum([i \in 1..Len(symbols) |-> positions[symbols[i]].total_fee_paid]))
    /\ HasCall =>
           /\ last.call.fee_paid =
                  RMul(R(Abs(last.call.trade_size) * last.call.price),
                       IF last.call.order_type = "LIMIT"
                       THEN params.maker_fee ELSE params.taker_fee)
           /\ wallet_balance =
                  RSub(RAdd(last.call.wallet_before, last.call.realized_pnl),
                       last.call.fee_paid)

\* a market close that pays a taker fee and realizes PnL, after a limit fill
\* that paid a maker fee
C3_Witness ==
    /\ HasCall
    /\ last.call.order_type = "MARKET"
    /\ last.call.fee_paid # Zero
    /\ last.call.realized_pnl # Zero
    /\ \E i \in 1..Len(executed) :
          /\ orders[executed[i]].order_type = "LIMIT"
          /\ params.maker_fee # Zero
    /\ RLt(last.call.fee_paid, positions[last.call.symbol].total_fee_paid)

\* C4: a trade that flips a position through zero realizes |old quantity| *
\* (execution price - entry) for a long, |old quantity| * (entry - execution
\* price) for a short, and leaves a position of quantity old + delta whose
\* entry price is the execution price.
C4_FlipThroughZero ==
    (/\ HasCall
     /\ last.call.old.current_quantity
            * (last.call.old.current_quantity + last.call.trade_size) < 0)
    => LET old == last.call.old.current_quantity
           entry == last.call.old.previous_entry_price
           price == R(last.call.price)
       IN  /\ ~last.call.raised
           /\ last.call.realized_pnl =
                  IF old > 0 THEN RMul(R(Abs(old)), RSub(price, entry))
                  ELSE RMul(R(Abs(old)), RSub(entry, price))
           /\ positions[last.call.symbol].current_quantity = old + last.call.trade_size
           /\ positions[last.call.symbol].previous_entry_price = price
           /\ positions[last.call.symbol].total_realized_pnl =
                  RAdd(last.call.old.total_realized_pnl, last.call.realized_pnl)

\* a flip whose trade is larger than the old position, away from the entry price
C4_Witness ==
    /\ HasCall
    /\ last.call.old.current_quantity
           * (last.call.old.current_quantity + last.call.trade_size) < 0
    /\ Abs(last.call.trade_size) > Abs(last.call.old.current_quantity)
    /\ last.call.old.previous_entry_price # R(last.call.price)
    /\ last.call.realized_pnl # Zero

\* the sum of quantity * price over a list of order references
RECURSIVE Notional(_)
Notional(refs) ==
    IF refs = <<>> THEN 0
    ELSE orders[Head(refs)].quantity * orders[Head(refs)].price + Notional(Tail(refs))

\* C5: while all the trades of a symbol, from its flat start, are on one side,
\* |quantity| * entry price equals the sum of size * price over the trades and
\* the realized PnL of the symbol stays 0.
C5_SameDirectionEntry ==
    \A s \in Syms : \A side \in {"BUY", "SELL"} :
        LET trades == ExecutedOf(s)
        IN  (/\ trades # <<>>
             /\ \A i \in 1..Len(trades) : orders[trades[i]].side = side)
            => /\ RMul(R(Abs(positions[s].current_quantity)),
                       positions[s].previous_entry_price) = R(Notional(trades))
               /\ positions[s].total_realized_pnl = Zero
               /\ HasCall /\ last.call.symbol = s => last.call.realized_pnl = Zero

\* three trades on one side at different prices, leaving a fractional entry price
C5_Witness ==
    \E s \in Syms :
        LET trades == ExecutedOf(s)
        IN  /\ Len(trades) = 3
            /\ \A i \in 1..3 : orders[trades[i]].side = orders[trades[1]].side
            /\ positions[s].previous_entry_price[2] > 1
            /\ orders[trades[1]].quantity # orders[trades[3]].quantity

\* C6: after a market-close order built by create_market_close_order is executed
\* by execute_order the position's quantity is 0 and its unrealized_pnl field is
\* exactly 0; create_market_close_order returns None when the position is flat.
C6_MarketCloseFlattens ==
    last.op = "market_close" =>
        /\ (last.made = <<>>) <=> ("call" \notin DOMAIN last)
        /\ last.made = <<>> => positions[last.symbol].current_quantity = 0
        /\ last.made # <<>> =>
              /\ last.call.old.current_quantity # 0
              /\ last.made[1].quantity = Abs(last.call.old.current_quantity)
              /\ last.made[1].side = IF last.call.old.current_quantity > 0 THEN "SELL" ELSE "BUY"
              /\ positions[last.symbol].current_quantity = 0
              /\ positions[last.symbol].unrealized_pnl = Zero

\* the last call reduced a position without taking it through zero
ReducedWithoutCrossing ==
    /\ HasCall
    /\ last.call.old.current_quantity # 0
    /\ last.call.old.current_quantity * last.call.trade_size < 0
    /\ Abs(last.call.trade_size) <= Abs(last.call.old.current_quantity)

\* C15: a decrease that does not cross zero (partial or full close) realizes
\* |trade| * (execution price - entry) for a long and |trade| * (entry -
\* execution price) for a short, leaves the entry price unchanged when the
\* resulting quantity is nonzero and clears it to None when it is zero.
C15_ReduceWithoutCrossing ==
    ReducedWithoutCrossing
    => LET old == last.call.old.current_quantity
           entry == last.call.old.previous_entry_price
           price == R(last.call.price)
           new == old + last.call.trade_size
       IN  /\ ~last.call.raised
           /\ last.call.realized_pnl =
                  IF old > 0 THEN RMul(R(Abs(last.call.trade_size)), RSub(price, entry))
                  ELSE RMul(R(Abs(last.call.trade_size)), RSub(entry, price))
           /\ positions[last.call.symbol].current_quantity = new
           /\ positions[last.call.symbol].previous_entry_price =
                  IF new = 0 THEN None ELSE entry

\* a short position partly bought back away from its entry price
C15_Witness ==
    /\ ReducedWithoutCrossing
    /\ last.call.old.current_quantity < 0
    /\ positions[last.call.symbol].current_quantity < 0
    /\ last.call.realized_pnl # Zero
    /\ positions[last.call.symbol].previous_entry_price = last.call.old.previous_entry_price

\* a long position closed to flat at a loss
C15_WitnessFullClose ==
    /\ ReducedWithoutCrossing
    /\ last.call.old.current_quantity > 0
    /\ positions[last.call.symbol].current_quantity = 0
    /\ RLt(last.call.realized_pnl, Zero)
    /\ positions[last.call.symbol].previous_entry_price = None

---------------------------------------------------------------------------
(* Properties of run_simulation, checked under Spec.                       *)

\* C1: when the run has returned, every history series has length N, the number
\* of input timestamps, also when it stopped early through the margin stop.
C1_HistoriesHaveLengthN ==
    pc \in {"done", "stopped"} =>
        /\ Len(wallet_balance_history) = N
        /\ Len(margin_history) = N
        /\ Len(global_leverage_history) = N
        /\ \A s \in Syms :
              /\ Len(leverage_history[s]) = N
              /\ Len(reservation_price_history[s]) = N
              /\ Len(spread_history[s]) = N
              /\ Len(realized_pnl_history[s]) = N
              /\ Len(price_history[s]) = N

\* the Order Model fill rule: a PENDING limit order fills when the bar crosses
\* its price by at least one ticksize
FillRule(order, high, low, ticksize) ==
    /\ order.status = "PENDING"
    /\ \/ order.side = "BUY" /\ RLe(R(low), RSub(R(order.price), ticksize))
       \/ order.side = "SELL" /\ RLe(RAdd(R(order.price), ticksize), R(high))

\* C7: check_order_fills marks FILLED and returns exactly the PENDING limit
\* orders of its symbol for which the fill rule holds, the decision
\* LimitOrder.check_fill makes; every other order keeps its status.
C7_FillsExactlyTheRule ==
    last.op = "CheckFills" =>
        LET s == last.symbol
            high == bar[s][1]
            low == bar[s][2]
            Hit(r) ==
                /\ last.before[r].symbol = s
                /\ last.before[r].order_type = "LIMIT"
                /\ FillRule(last.before[r], high, low, ticksize_of(s))
        IN  /\ DOMAIN orders = DOMAIN last.before
            /\ \A r \in DOMAIN orders :
                  /\ Hit(r) <=> r \in Range(last.returned)
                  /\ Hit(r) <=> LimitOrder_check_fill(last.before[r], high, low, ticksize_of(s))
                                /\ last.before[r].symbol = s
                                /\ last.before[r].order_type = "LIMIT"
                  /\ orders[r] = IF Hit(r) THEN [last.before[r] EXCEPT !.status = "FILLED"]
                                 ELSE last.before[r]
            /\ \A i, j \in 1..Len(last.returned) :
                  last.returned[i] = last.returned[j] => i = j

\* a call that returns an order while a pending order of the symbol and a
\* pending order of another symbol stay PENDING
C7_Witness ==
    /\ last.op = "CheckFills"
    /\ last.returned # <<>>
    /\ \E r \in DOMAIN orders :
          /\ orders[r].symbol = last.symbol
          /\ orders[r].order_type = "LIMIT"
          /\ last.before[r].status = "PENDING"
          /\ orders[r].status = "PENDING"
    /\ \E r \in DOMAIN orders :
          /\ orders[r].symbol # last.symbol
          /\ orders[r].status = "PENDING"

\* the rejection rule of validate_single_order for a candidate of a symbol whose
\* risk metrics are rm, at the reference price
Rejected(order, reference_price, rm) ==
    LET value == R(order.quantity * reference_price)
        signed == IF order.side = "BUY" THEN value ELSE RNeg(value)
    IN  \/ RLt(value, params.min_order_value_usd)
        \/ RLt(RDiv(params.max_leverage, R(n_symbols)),
               RDiv(RAbs(RAdd(rm.position_value, signed)), rm.current_margin))

\* C8: validate_single_order rejects a candidate iff its value at the reference
\* price is below min_order_value_usd or the leverage it would leave exceeds
\* max_leverage / n_symbols; generate_limit_orders raises nothing, and adds to
\* the active list of the symbol and to the history the candidates that are not
\* rejected and nothing else.
C8_RejectedCandidatesLeaveNoTrace ==
    last.op = "ProcessSymbol" =>
        LET s == last.symbol
            reference_price == last.output.reservation_price
            rm == current_risk_metrics[s]
            candidates == potential_orders(last.before, t, s, last.output, last.max_position)
            NotRejected(o) == ~Rejected(o, reference_price, rm)
            kept == SelectSeq(candidates, NotRejected)
            refs == [i \in 1..Len(kept) |-> Len(last.before.orders) + i]
        IN  /\ \A i \in 1..Len(candidates) :
                  validate_single_order(params, candidates[i], R(reference_price), rm, n_symbols)
                      <=> ~Rejected(candidates[i], reference_price, rm)
            /\ pc # "raised"
            /\ orders = last.before.orders \o kept
            /\ active_orders =
                   [last.before.active_orders EXCEPT ![s] = @ \o refs]
            /\ order_history = last.before.order_history \o refs

\* a call with a candidate rejected for its leverage only, next to one that is
\* accepted
C8_Witness ==
    /\ last.op = "ProcessSymbol"
    /\ LET s == last.symbol
           reference_price == last.output.reservation_price
           rm == current_risk_metrics[s]
           candidates == potential_orders(last.before, t, s, last.output, last.max_position)
       IN  /\ \E i \in 1..Len(candidates) :
                 /\ Rejected(candidates[i], reference_price, rm)
                 /\ ~RLt(R(candidates[i].quantity * reference_price), params.min_order_value_usd)
           /\ \E i \in 1..Len(candidates) : ~Rejected(candidates[i], reference_price, rm)
           /\ Len(order_history) = Len(last.before.order_history) + 1

\* the margin carried into timestamp t and the initial margin it is compared with
CarriedMargin == IF margin_history # <<>> THEN Last(margin_history) ELSE sim_wallet_balance
InitialMargin == IF margin_history # <<>> THEN margin_history[1] ELSE sim_wallet_balance

\* the stop condition at the start of a timestamp: total margin / initial margin
\* at or below early_stopping_margin, or a carried margin that is not positive
StopCondition ==
    \/ RLe(CarriedMargin, Zero)
    \/ /\ InitialMargin # Zero
       /\ RLe(RDiv(CarriedMargin, InitialMargin), params.early_stopping_margin)

\* C9: when the stop condition holds at the start of timestamp t the run
\* terminates there without raising: nothing is exited, cancelled, generated,
\* filled or executed at t or later, positions and wallet are left as they were,
\* and the histories are padded.
C9_MarginStopTerminates ==
    [][/\ (pc = "start" /\ t < N /\ StopCondition) =>
              /\ pc' = "stopped"
              /\ UNCHANGED <<positions, wallet_balance, sim_wallet_balance, orders,
                             active_orders, order_history, executed>>
              /\ Len(wallet_balance_history') = N
              /\ Len(margin_history') = N
              /\ \A s \in Syms :
                    /\ Len(leverage_history'[s]) = N
                    /\ Len(reservation_price_history'[s]) = N
                    /\ Len(realized_pnl_history'[s]) = N
       /\ pc # "stopped"]_vars

\* C10: when the run reaches the final timestamp of N >= 1 with a positive margin
\* it closes every open position with a market order at the opening price of
\* the bar, paying the taker fee, generates and fills no limit order, and
\* returns with every position at 0, no unrealized PnL, a final margin equal to
\* the final wallet balance and leverage entries of 0.
C10_FinalTimestampCloses ==
    [][(pc = "start" /\ N >= 1 /\ t = N - 1 /\ RLt(Zero, CarriedMargin) /\ ~StopCondition) =>
          LET open == [s \in Syms |-> prices[s][t + 1]]
              Held(s) == positions[s].current_quantity # 0
              closes == SelectSeq(symbols, Held)
          IN  /\ pc' = "done"
              /\ \A s \in Syms :
                    /\ positions'[s].current_quantity = 0
                    /\ positions'[s].unrealized_pnl = Zero
                    /\ positions'[s].total_fee_paid =
                           RAdd(positions[s].total_fee_paid,
                                RMul(R(Abs(positions[s].current_quantity) * open[s]),
                                     params.taker_fee))
                    /\ Last(leverage_history'[s]) = Zero
              /\ Len(executed') = Len(executed) + Len(closes)
              /\ \A i \in 1..Len(closes) :
                    LET o == orders'[executed'[Len(executed) + i]]
                    IN  /\ o.order_type = "MARKET"
                        /\ o.symbol = closes[i]
                        /\ o.price = open[closes[i]]
                        /\ o.quantity = Abs(positions[closes[i]].current_quantity)
              /\ order_history' = order_history
              /\ active_orders' = active_orders
              /\ \A r \in DOMAIN orders : orders'[r] = orders[r]
              /\ Last(global_leverage_history') = Zero
              /\ Last(margin_history') = Last(wallet_balance_history')
              /\ Last(wallet_balance_history') = wallet_balance'
              /\ sim_wallet_balance' = wallet_balance']_vars

C13_ExecutedOrdersInHistory ==
    \A i \in 1..Len(executed) :
        /\ executed[i] \in Range(order_history)
        /\ orders[executed[i]].status = "FILLED"

\* C13, the limit orders only: an executed limit order is in the order history
\* and FILLED, and the order history only ever grows
C13_ExecutedLimitOrdersInHistory ==
    \A i \in 1..Len(executed) :
        orders[executed[i]].order_type = "LIMIT" =>
            /\ executed[i] \in Range(order_history)
            /\ orders[executed[i]].status = "FILLED"

C13_HistoryAppendOnly ==
    [][SubSeq(order_history', 1, Len(order_history)) = order_history]_vars

\* every series the run reports has n entries
SeriesHaveLength(n) ==
    /\ Len(wallet_balance_history) = n
    /\ Len(margin_history) = n
    /\ Len(global_leverage_history) = n
    /\ \A s \in Syms :
          /\ Len(leverage_history[s]) = n
          /\ Len(realized_pnl_history[s]) = n
          /\ Len(reservation_price_history[s]) = n
          /\ Len(spread_history[s]) = n

\* C14: in a run the margin check does not stop, after each processed timestamp t
\* (warm-up, active trading or final bar) the wallet balance, margin and global
\* leverage series and, per symbol, the leverage, realized PnL, reservation
\* price and spread series have exactly t + 1 entries.
C14_SeriesGrowByOne ==
    /\ pc = "start" => SeriesHaveLength(t)
    /\ (pc = "done" /\ N > 0) => t = N - 1 /\ SeriesHaveLength(t + 1)
    /\ (pc = "done" /\ N = 0) => SeriesHaveLength(0)

\* a run of a warm-up timestamp, a trading timestamp with a fill and the final bar
C14_Witness ==
    /\ pc = "done"
    /\ N = MaxN
    /\ params.min_start = 1
    /\ executed # <<>>
    /\ SeriesHaveLength(MaxN)

\* C16: every market order executed during a run is filled at the worst-case
\* extreme of the bar in which it executes: a BUY at the bar's high, a SELL at
\* the bar's low.
C16_MarketOrdersAtBarExtreme ==
    \A i \in 1..Len(executed) :
        LET order == orders[executed[i]]
        IN  (/\ order.order_type = "MARKET"
             /\ order.timestamp = t
             /\ order.symbol \in DOMAIN bar)
            => order.price = IF order.side = "BUY" THEN bar[order.symbol][1]
                             ELSE bar[order.symbol][2]

\* C16, what the run does: a market order executes at the opening price of the
\* timestamp in which it is created, whatever the bar's high and low
C16_MarketOrdersAtOpen ==
    \A i \in 1..Len(executed) :
        LET order == orders[executed[i]]
        IN  order.order_type = "MARKET"
            => /\ order.price = prices[order.symbol][order.timestamp + 1]
               /\ order.status = "PENDING"

\* an emergency-exit market order was executed in the bar being processed
C16_EmergencyCloseInBar ==
    \E i \in 1..Len(executed) :
        /\ orders[executed[i]].order_type = "MARKET"
        /\ orders[executed[i]].timestamp = t
        /\ orders[executed[i]].symbol \in DOMAIN bar

---------------------------------------------------------------------------
(* Properties of the order manager's quoting and cancelling, checked under *)
(* SpecOrders.                                                             *)

IsGenerate == last.op = "generate_limit_orders"

\* the PENDING quantity of a side among the active orders of the symbol before
\* the call
PendingBefore(side) ==
    LET active == last.before.active_orders[last.symbol]
        Quantity(i) ==
            IF /\ last.before.orders[active[i]].side = side
               /\ last.before.orders[active[i]].status = "PENDING"
            THEN last.before.orders[active[i]].quantity ELSE 0
    IN  RSum([i \in 1..Len(active) |-> R(Quantity(i))])

\* the capacity a side starts the call with
StartCapacity(side) ==
    LET position == R(last.before.positions[last.symbol].current_quantity)
    IN  IF side = "BUY"
        THEN RSub(RSub(last.max_position, position), PendingBefore("BUY"))
        ELSE RSub(RAdd(last.max_position, position), PendingBefore("SELL"))

\* the capacity left when the walk reaches level i
RECURSIVE CapacityAt(_, _, _)
CapacityAt(levels, start, i) ==
    IF i = 1 THEN start
    ELSE LET c == CapacityAt(levels, start, i - 1)
         IN  IF RLt(Zero, c) THEN RSub(c, R(levels[i - 1].size)) ELSE c

LevelsOf(side) == IF side = "BUY" THEN last.output.buy_levels ELSE last.output.sell_levels

\* the candidates of a side: one for each level reached with capacity left
CandidatesOf(side) ==
    LET levels == LevelsOf(side)
        Reached(i) == RLt(Zero, CapacityAt(levels, StartCapacity(side), i))
        reached == SelectSeq([i \in 1..Len(levels) |-> i], Reached)
    IN  [j \in 1..Len(reached) |->
            [symbol |-> last.symbol, timestamp |-> t, side |-> side,
             price |-> levels[reached[j]].price, quantity |-> levels[reached[j]].size,
             status |-> "PENDING", order_type |-> "LIMIT", reason |-> ""]]

ValidatorAccepts(order) ==
    validate_single_order(params, order, R(last.output.reservation_price),
                          last.risk_metrics, n_symbols)

\* C17: generate_limit_orders starts the buy side with max_position - position -
\* pending BUY quantity and the sell side with max_position + position -
\* pending SELL quantity, walks the levels in emitted order, makes a candidate
\* of a level iff the side's capacity is > 0 at that point and then takes the
\* level's size off the capacity whether or not the validator accepts it, and
\* appends to the active list and the history exactly the accepted candidates,
\* in that order.
C17_CapacityWalk ==
    IsGenerate =>
        LET accepted == SelectSeq(CandidatesOf("BUY") \o CandidatesOf("SELL"), ValidatorAccepts)
            refs == [i \in 1..Len(accepted) |-> Len(last.before.orders) + i]
        IN  /\ orders = last.before.orders \o accepted
            /\ active_orders =
                   [last.before.active_orders EXCEPT ![last.symbol] = @ \o refs]
            /\ order_history = last.before.order_history \o refs
            /\ positions = last.before.positions
            /\ wallet_balance = last.before.wallet_balance

\* a call with pending BUY quantity whose first buy level is reached with
\* capacity left and refused by the validator, and whose second buy level is
\* passed over because the first took the capacity
C17_Witness ==
    /\ IsGenerate
    /\ Len(last.output.buy_levels) = 2
    /\ RLt(Zero, PendingBefore("BUY"))
    /\ RLt(Zero, StartCapacity("BUY"))
    /\ ~RLt(Zero, CapacityAt(last.output.buy_levels, StartCapacity("BUY"), 2))
    /\ Len(CandidatesOf("BUY")) = 1
    /\ ~ValidatorAccepts(CandidatesOf("BUY")[1])
    /\ \A r \in DOMAIN orders : r > Len(last.before.orders) => orders[r].side = "SELL"

\* a call whose two sell levels both become orders on a short position
C17_WitnessTwoLevels ==
    /\ IsGenerate
    /\ last.before.positions[last.symbol].current_quantity < 0
    /\ Len(CandidatesOf("SELL")) = 2
    /\ Len(orders) >= Len(last.before.orders) + 2
    /\ orders[Len(orders)].side = "SELL"
    /\ orders[Len(orders) - 1].side = "SELL"

IsCancel == last.op = "cancel_old_orders"

\* the rule of should_cancel_orders for an order created at order_timestamp
CancelRule(order_timestamp) ==
    IF params.cancel_orders_every_timestamp THEN TRUE
    ELSE IF params.max_order_age # -1
        THEN last.timestamp - order_timestamp >= params.max_order_age
    ELSE FALSE

ActiveBefore == UNION {Range(last.before.active_orders[s]) : s \in Syms}

\* C20: cancel_old_orders sets to CANCELLED and removes from the active set
\* exactly the active orders the rule selects (all when
\* cancel_orders_every_timestamp is set; otherwise those of age >= max_order_age
\* when it is set; otherwise none); the other active orders stay PENDING in
\* their order, and positions, wallet balance and order history are unchanged.
C20_CancelExactlyTheOld ==
    IsCancel =>
        LET Stays(r) == ~CancelRule(last.before.orders[r].timestamp)
        IN  /\ \A s \in Syms :
                  /\ active_orders[s] = SelectSeq(last.before.active_orders[s], Stays)
                  /\ \A i \in 1..Len(active_orders[s]) :
                        orders[active_orders[s][i]].status = "PENDING"
            /\ DOMAIN orders = DOMAIN last.before.orders
            /\ \A r \in DOMAIN orders :
                  orders[r] = IF r \in ActiveBefore /\ ~Stays(r)
                              THEN [last.before.orders[r] EXCEPT !.status = "CANCELLED"]
                              ELSE last.before.orders[r]
            /\ positions = last.before.positions
            /\ wallet_balance = last.before.wallet_balance
            /\ order_history = last.before.order_history
            /\ executed = last.before.executed

\* a call under max_order_age that cancels the older orders and keeps the
\* younger ones
C20_Witness ==
    /\ IsCancel
    /\ ~params.cancel_orders_every_timestamp
    /\ params.max_order_age # -1
    /\ \E s \in Syms :
          /\ active_orders[s] # <<>>
          /\ Len(active_orders[s]) < Len(last.before.active_orders[s])
          /\ \E r \in Range(last.before.active_orders[s]) : orders[r].status = "CANCELLED"

\* a call that cancels nothing because no rule is configured
C20_WitnessNever ==
    /\ IsCancel
    /\ ~params.cancel_orders_every_timestamp
    /\ params.max_order_age = -1
    /\ last.timestamp = MaxTicks
    /\ \E s \in Syms : Len(active_orders[s]) >= 2 /\ active_orders = last.before.active_orders

---------------------------------------------------------------------------
(* Properties of check_emergency_exit, checked under SpecEmergency.        *)

HasFlags == last.op = "check_emergency_exit"

\* the signed sum of the leverages of the symbols
SummedLeverage == RSum([i \in 1..Len(symbols) |-> current_risk_metrics[symbols[i]].current_leverage])

\* a symbol is flagged iff |its leverage| >= emergency_exit_leverage / n_symbols
SymbolFlagsRule ==
    \A s \in Syms :
        last.flags[s] <=>
            RLe(RDiv(params.emergency_exit_leverage, R(n_symbols)),
                RAbs(current_risk_metrics[s].current_leverage))

\* C18: check_emergency_exit sets a symbol's flag iff |leverage of the symbol| >=
\* emergency_exit_leverage / n_symbols, and sets 'Total' iff the summed signed
\* leverage of the symbols exceeds max_leverage.
C18_TotalWhenSumExceeds ==
    HasFlags =>
        /\ SymbolFlagsRule
        /\ last.flags["Total"] <=> RLt(params.max_leverage, SummedLeverage)

\* C18, amended: check_emergency_exit sets a symbol's flag iff |leverage of the
\* symbol| >= emergency_exit_leverage / n_symbols, and sets 'Total' iff the
\* absolute value of the summed signed leverage is >= max_leverage.
C18_TotalWhenAbsSumReaches ==
    HasFlags =>
        /\ DOMAIN last.flags = Syms \cup {"Total"}
        /\ SymbolFlagsRule
        /\ last.flags["Total"] <=> RLe(params.max_leverage, RAbs(SummedLeverage))

\* two symbols, both flagged, whose leverages cancel: 'Total' is not set
C18_Witness ==
    /\ HasFlags
    /\ n_symbols = 2
    /\ \A s \in Syms : last.flags[s]
    /\ SummedLeverage = Zero
    /\ ~last.flags["Total"]

\* a net short portfolio, no symbol flagged, with 'Total' set
C18_WitnessShort ==
    /\ HasFlags
    /\ n_symbols = 2
    /\ \A s \in Syms : ~last.flags[s]
    /\ RLt(SummedLeverage, Zero)
    /\ last.flags["Total"]

---------------------------------------------------------------------------
(* Properties of the emergency exits of a run, checked under SpecExits.    *)

\* the step of a trading timestamp that evaluates and processes the exits
IsExitStep == pc = "start" /\ pc' = "cancel"

\* C19: in an active-trading timestamp the emergency exits are processed before
\* any cancellation or order generation; when 'Total' is set every symbol's
\* position is flat before the first order is cancelled or generated, whatever
\* the per-symbol flags; when it is not, exactly the flagged symbols are
\* flattened and every other symbol's position is unchanged by the exit step.
C19_ExitsBeforeOrders ==
    [][/\ pc' = "cancel" => pc = "start"
       /\ (pc' = "quote" /\ pc # "quote") => pc = "cancel"
       /\ IsExitStep =>
             /\ last'.op = "EmergencyExits"
             /\ t' = t
             /\ active_orders' = active_orders
             /\ order_history' = order_history
             /\ \A r \in DOMAIN orders : orders'[r] = orders[r]
             /\ \A r \in DOMAIN orders' \ DOMAIN orders : orders'[r].order_type = "MARKET"
             /\ IF last'.flags["Total"]
                THEN \A s \in Syms : positions'[s].current_quantity = 0
                ELSE \A s \in Syms :
                        IF last'.flags[s] THEN positions'[s].current_quantity = 0
                        ELSE positions'[s] = positions[s]]_vars

\* 'Total' is not set, one symbol is flagged and was closed by a market order,
\* the other keeps its position
C19_Witness ==
    /\ last.op = "EmergencyExits"
    /\ pc = "cancel"
    /\ ~last.flags["Total"]
    /\ \E s \in Syms, o \in Syms :
          /\ last.flags[s]
          /\ ~last.flags[o]
          /\ positions[s].current_quantity = 0
          /\ positions[o].current_quantity # 0
          /\ \E i \in 1..Len(executed) :
                /\ orders[executed[i]].order_type = "MARKET"
                /\ orders[executed[i]].symbol = s
                /\ orders[executed[i]].timestamp = t

\* 'Total' is set, no symbol is flagged, and both positions were closed
C19_WitnessTotal ==
    /\ last.op = "EmergencyExits"
    /\ pc = "cancel"
    /\ last.flags["Total"]
    /\ \A s \in Syms :
          /\ ~last.flags[s]
          /\ positions[s].current_quantity = 0
          /\ \E i \in 1..Len(executed) :
                /\ orders[executed[i]].order_type = "MARKET"
                /\ orders[executed[i]].symbol = s

---------------------------------------------------------------------------
(* Properties of the end-to-end scenario, checked under SpecScenario.      *)

\* C12: in the scenario the run produces zero fills, the final wallet balance
\* equals the initial cash, and the returned order history holds zero trades,
\* the number of trades being the length of the order history.
C12_ScenarioEmptyHistory ==
    /\ executed = <<>>
    /\ filled_orders = <<>>
    /\ pc = "done" =>
          /\ wallet_balance = params.initial_cash
          /\ sim_wallet_balance = params.initial_cash
          /\ Len(order_history) = 0

\* C12, the part the run keeps: in the scenario the run produces zero fills, the wallet balance
\* stays at the initial cash, the margin check lets every timestamp through,
\* and the returned order history holds the two quotes of every trading
\* timestamp, none of them FILLED.
C12_ScenarioNoFills ==
    /\ executed = <<>>
    /\ filled_orders = <<>>
    /\ wallet_balance = params.initial_cash
    /\ \A r \in DOMAIN orders : orders[r].status # "FILLED"
    /\ \A i \in 1..Len(order_history) : orders[order_history[i]].order_type = "LIMIT"
    /\ (pc = "start" /\ t < N) =>
          /\ check_margin_conditions(PreCheck) = "continue"
          /\ t = N - 1 => margin_history # <<>>
          /\ Len(order_history) = 2 * (IF t > params.min_start THEN t - params.min_start ELSE 0)
    /\ pc = "done" =>
          /\ sim_wallet_balance = params.initial_cash
          /\ Len(wallet_balance_history) = N
          /\ Last(wallet_balance_history) = params.initial_cash
          /\ Last(margin_history) = params.initial_cash
          /\ Len(order_history) = 2 * (N - 1 - params.min_start)

\* the run of all the bars, trading from the first one, has returned
C12_Witness ==
    /\ pc = "done"
    /\ N = ScenarioBars
    /\ params.min_start = 0
    /\ Len(order_history) = 2 * (ScenarioBars - 1)
    /\ orders[1].status = "CANCELLED"

---------------------------------------------------------------------------
(* Properties of the margin of a run, checked under Spec.                  *)

\* the timestamp is between its pre-check and its end
InTimestamp == pc \in {"cancel", "quote", "fills", "execute", "eot"}

\* the margin recorded at the end of the timestamp before timestamp u, the
\* initial cash for the first
MarginBefore(u) == IF u = 0 THEN params.initial_cash ELSE margin_history[u]

\* C21: during timestamp t the per-symbol margin allocation is the margin
\* recorded at the end of t - 1 (the initial cash at t = 0) divided by
\* n_symbols, and it is the same from the pre-check through order validation,
\* the emergency-exit check and the leverage recorded at the end of the
\* timestamp, whatever the exits and fills of t do to the wallet balance.
C21_FixedAllocation ==
    /\ InTimestamp =>
          /\ Len(margin_history) = t
          /\ margin = MarginBefore(t)
          /\ per_symbol_margin = RDiv(MarginBefore(t), R(n_symbols))
          /\ \A s \in Syms : current_risk_metrics[s].current_margin = per_symbol_margin
    /\ (pc = "start" /\ last.op \in {"EndOfTimestamp", "WarmUp"}) =>
          /\ per_symbol_margin = RDiv(MarginBefore(t - 1), R(n_symbols))
          /\ \A s \in Syms :
                /\ current_risk_metrics[s].current_margin = per_symbol_margin
                /\ leverage_history[s][t] =
                       RDiv(R(positions[s].current_quantity * prices[s][t + 1]),
                            RDiv(MarginBefore(t - 1), R(n_symbols)))

\* a timestamp whose fill moved the wallet balance away from the margin it
\* started with, and whose recorded leverage is not zero
C21_Witness ==
    /\ pc = "start"
    /\ last.op = "EndOfTimestamp"
    /\ t >= 2
    /\ wallet_balance # MarginBefore(t - 1)
    /\ Last(margin_history) # MarginBefore(t - 1)
    /\ \E s \in Syms : leverage_history[s][t] # Zero

\* the unrealized PnL of the position of a symbol marked at a price
MarkedAt(s, price) ==
    LET quantity == positions[s].current_quantity
        entry == positions[s].previous_entry_price
    IN  IF quantity > 0 THEN RMul(R(quantity), RSub(R(price), entry))
        ELSE IF quantity < 0 THEN RMul(R(-quantity), RSub(entry, R(price)))
        ELSE Zero

\* C22: for every processed timestamp at which the run does not terminate, the
\* margin recorded equals the wallet balance recorded (the wallet after all
\* executions of the timestamp) plus the sum over the symbols of the unrealized
\* PnL of the position after the fills, marked at the close of the bar.
C22_MarginIsWalletPlusUnrealized ==
    (pc = "start" /\ last.op \in {"EndOfTimestamp", "WarmUp"}) =>
        /\ wallet_balance_history[t] = wallet_balance
        /\ margin_history[t] =
               RAdd(wallet_balance_history[t],
                    RSum([i \in 1..Len(symbols) |->
                             MarkedAt(symbols[i], prices[symbols[i]][t + 1])]))
        /\ \A s \in Syms : positions[s].unrealized_pnl = MarkedAt(s, prices[s][t + 1])

\* a timestamp that ends with a short position marked at a loss, after a fill
\* that paid a fee
C22_Witness ==
    /\ pc = "start"
    /\ last.op = "EndOfTimestamp"
    /\ RLt(wallet_balance_history[t], params.initial_cash)
    /\ \E s \in Syms :
          /\ positions[s].current_quantity < 0
          /\ RLt(MarkedAt(s, prices[s][t + 1]), Zero)
    /\ RLt(margin_history[t], wallet_balance_history[t])

---------------------------------------------------------------------------
(* Properties of a failed execution, checked under SpecLedgerZero.         *)

\* C23: execute_position_change raises exactly when old quantity = new
\* quantity, a zero trade; when it raises, the quantity, entry price, total
\* realized PnL and total fees of the position and the wallet balance and
\* active set of the order manager are unchanged by the failed execute_order.
C23_RaisesOnZeroTradeOnly ==
    HasCall =>
        /\ last.call.raised <=> last.call.trade_size = 0
        /\ last.call.raised =>
              /\ "before" \in DOMAIN last
              /\ positions = last.before.positions
              /\ positions[last.call.symbol] = last.call.old
              /\ wallet_balance = last.call.wallet_before
              /\ active_orders = last.before.active_orders
              /\ last.call.ref \in Range(active_orders[last.call.symbol])

\* a zero trade on a position that is not flat, after fills that paid fees
C23_Witness ==
    /\ HasCall
    /\ last.call.raised
    /\ pc = "raised"
    /\ last.call.old.current_quantity # 0
    /\ last.call.old.total_fee_paid # Zero
    /\ positions[last.call.symbol].previous_entry_price # None

---------------------------------------------------------------------------
(* Properties of the fee of a fill, checked under SpecLedgerFees.          *)

CallFeeRate == fee_rate_of(params, [order_type |-> last.call.order_type])

\* C24: a fill executed with a negative maker or taker fee rate aborts
\* instead of producing a negative fee_paid that increases the wallet
\* balance, and for every non-negative fee rate fee_paid is >= 0.
C24_NegativeRateAborts ==
    HasCall =>
        /\ RLt(CallFeeRate, Zero) => last.call.raised
        /\ ~last.call.raised => RLe(Zero, last.call.fee_paid)
        /\ RLe(Zero, CallFeeRate) => RLe(Zero, last.call.fee_paid)

\* the part of C24 about non-negative rates
C24_NonNegativeRateFee ==
    (HasCall /\ RLe(Zero, CallFeeRate)) => RLe(Zero, last.call.fee_paid)

\* a limit fill at a negative maker rate that opens a position: nothing is
\* realized, the call returns and the wallet balance has grown by the rebate
C24_Witness ==
    /\ HasCall
    /\ last.op = "execute_order"
    /\ RLt(CallFeeRate, Zero)
    /\ ~last.call.raised
    /\ last.call.realized_pnl = Zero
    /\ RLt(last.call.fee_paid, Zero)
    /\ RLt(last.call.wallet_before, wallet_balance)
    /\ pc = "ledger"

---------------------------------------------------------------------------
(* Properties of the resolution order of check_order_fills, checked under  *)
(* SpecOrders: the two outcomes of the draw of line 216 are compared on    *)
(* every bar the next fill check can be given.                             *)

\* the order manager after check_order_fills of symbol s on the bar hl with
\* the given draw, followed by the execution of the returned orders
ResolvedWith(s, hl, execute_longs_first) ==
    LET Run(r) == [filled |-> r.filled, res |-> execute_all(params, r.om, r.filled)]
    IN  Run(check_order_fills(OM, s, hl[1], hl[2], ticksize_of(s), execute_longs_first))

BarsOf(s) == {hl \in (1..MaxPrice) \X (1..MaxPrice) : hl[2] <= hl[1]}

BothSidesFill(s, hl) ==
    LET filled == ResolvedWith(s, hl, TRUE).filled
    IN  /\ \E i \in DOMAIN filled : orders[filled[i]].side = "BUY"
        /\ \E i \in DOMAIN filled : orders[filled[i]].side = "SELL"

\* C25: when buy and sell orders of a symbol both fill within a bar, the
\* resolution order is fixed, so that the run on the same inputs gives the
\* same wallet balance, realized PnL, position and entry price whichever
\* value line 216 drew.
C25_OneResolutionOrder ==
    pc = "orders" =>
        \A hl \in BarsOf(symbols[1]) :
            BothSidesFill(symbols[1], hl) =>
                LET s == symbols[1]
                    a == ResolvedWith(s, hl, TRUE)
                    b == ResolvedWith(s, hl, FALSE)
                IN  /\ a.filled = b.filled
                    /\ a.res.om.wallet_balance = b.res.om.wallet_balance
                    /\ a.res.om.positions[s].total_realized_pnl
                          = b.res.om.positions[s].total_realized_pnl
                    /\ a.res.om.positions[s].current_quantity
                          = b.res.om.positions[s].current_quantity
                    /\ a.res.om.positions[s].previous_entry_price
                          = b.res.om.positions[s].previous_entry_price

\* an open position, a buy and a sell that both fill in the bar: the two
\* draws leave the same quantity but another entry price and another wallet
\* balance
C25_Witness ==
    /\ pc = "orders"
    /\ positions[symbols[1]].current_quantity # 0
    /\ \E hl \in BarsOf(symbols[1]) :
          /\ BothSidesFill(symbols[1], hl)
          /\ LET s == symbols[1]
                 a == ResolvedWith(s, hl, TRUE).res.om
                 b == ResolvedWith(s, hl, FALSE).res.om
             IN  /\ a.positions[s].current_quantity = b.positions[s].current_quantity
                 /\ a.positions[s].current_quantity # 0
                 /\ a.positions[s].previous_entry_price # b.positions[s].previous_entry_price
                 /\ a.wallet_balance # b.wallet_balance

---------------------------------------------------------------------------
(* Properties of the orders admitted at one price and one margin, checked  *)
(* under SpecOrders on the state a generate_limit_orders call leaves: the  *)
(* orders pending before the call were quoted at the same reservation      *)
(* price, and the wallet balance is still the initial cash.                *)

LeverageCap == RDiv(params.max_leverage, R(n_symbols))

\* the call was validated at the price and margin of the calls before it
SamePriceAndMargin ==
    /\ IsGenerate
    /\ last.risk_metrics.current_margin = RDiv(params.initial_cash, R(n_symbols))
    /\ \A r \in Range(last.before.active_orders[last.symbol]) :
          orders[r].status = "PENDING" => orders[r].price = last.output.reservation_price
    /\ RLe(RAbs(last.risk_metrics.current_leverage), LeverageCap)

\* |position notional| / per-symbol margin of the symbol of the call, at the
\* price and margin of the call, once the fills of the bar hl are executed
LeverageAfterFills(hl) ==
    RDiv(RAbs(R(ResolvedWith(last.symbol, hl, TRUE).res.om.positions[last.symbol].current_quantity
                  * last.output.reservation_price)),
         last.risk_metrics.current_margin)

\* C26: with the price and the per-symbol margin held fixed, after any
\* sequence of generate_limit_orders calls and fills of the admitted orders
\* the symbol's |position notional| / per-symbol margin does not exceed the
\* cap max_leverage / n_symbols that validate_single_order applies to each
\* admitted order.
C26_FillsKeepLeverageCap ==
    SamePriceAndMargin =>
        \A hl \in BarsOf(last.symbol) : RLe(LeverageAfterFills(hl), LeverageCap)

\* a flat symbol, two buy orders admitted by two calls at one price, each
\* within the cap on its own, both filled by the bar
C26_Witness ==
    /\ SamePriceAndMargin
    /\ k = MaxCalls
    /\ positions[last.symbol].current_quantity = 0
    /\ last.risk_metrics.position_value = Zero
    /\ Len(orders) = 2
    /\ \A r \in DOMAIN orders :
          /\ orders[r].side = "BUY"
          /\ orders[r].status = "PENDING"
          /\ RLe(RDiv(R(orders[r].quantity * last.output.reservation_price),
                      last.risk_metrics.current_margin), LeverageCap)
    /\ \E hl \in BarsOf(last.symbol) :
          /\ Len(ResolvedWith(last.symbol, hl, TRUE).filled) = 2
          /\ RLt(LeverageCap, LeverageAfterFills(hl))

---------------------------------------------------------------------------
(* Properties of the RiskMetrics handed to the validator, checked under    *)
(* Spec on the state a _process_one_symbol call leaves.                    *)

\* the call of _get_new_order_list had candidates, so that
\* validate_single_order was invoked
ValidatorInvoked ==
    /\ last.op = "ProcessSymbol"
    /\ potential_orders(last.before, t, last.symbol, last.output, last.max_position) # <<>>

\* an emergency exit closed the position of the symbol earlier in t
ExitedInTimestamp(s) ==
    \E r \in DOMAIN orders :
        /\ orders[r].order_type = "MARKET"
        /\ orders[r].symbol = s
        /\ orders[r].timestamp = t

\* C27: the position_value of the RiskMetrics validate_single_order receives
\* for a symbol at t is the symbol's position quantity at the moment of the
\* validation times the opening price of t, also after an emergency exit
\* has flattened the position earlier in t.
C27_PositionValueIsCurrent ==
    ValidatorInvoked =>
        current_risk_metrics[last.symbol].position_value
            = R(last.before.positions[last.symbol].current_quantity
                  * opening_prices[last.symbol])

\* the part of C27 without an emergency exit in the timestamp
C27_CurrentWithoutExit ==
    (ValidatorInvoked /\ ~ExitedInTimestamp(last.symbol)) =>
        current_risk_metrics[last.symbol].position_value
            = R(last.before.positions[last.symbol].current_quantity
                  * opening_prices[last.symbol])

\* the validator runs for a symbol an emergency exit has flattened in t and
\* admits an order on the position value of the closed position
C27_Witness ==
    /\ ValidatorInvoked
    /\ ExitedInTimestamp(last.symbol)
    /\ last.before.positions[last.symbol].current_quantity = 0
    /\ current_risk_metrics[last.symbol].position_value # Zero
    /\ Len(orders) > Len(last.before.orders)

---------------------------------------------------------------------------
(* Properties the two resolution orders share, checked under SpecOrders on *)
(* every bar and every close the next fill check can be given.             *)

\* wallet balance plus unrealized PnL at the close, for one symbol
MarginAtClose(om, s, close) ==
    RAdd(om.wallet_balance, unrealized_pnl_at(om.positions[s], close))

SameOutcome(s, a, b) ==
    /\ Range(a.filled) = Range(b.filled)
    /\ Len(a.filled) = Len(b.filled)
    /\ a.res.raised = b.res.raised
    /\ a.res.om.positions[s].current_quantity = b.res.om.positions[s].current_quantity
    /\ a.res.om.positions[s].total_fee_paid = b.res.om.positions[s].total_fee_paid
    /\ \A close \in 1..MaxPrice :
          MarginAtClose(a.res.om, s, close) = MarginAtClose(b.res.om, s, close)

\* C28: for any bar and any set of pending orders, resolving longs first or
\* shorts first changes neither the set of orders filled, nor the resulting
\* position quantity, nor the total fees paid, nor the end-of-bar margin
\* (wallet balance plus unrealized PnL at the close) once the filled orders
\* are executed.  The two draws either return the same list, which is then
\* executed in the same way, or their outcomes are compared.
C28_ResolutionOrderIrrelevant ==
    pc = "orders" =>
        \A s \in Syms : \A hl \in BarsOf(s) :
            \/ check_order_fills(OM, s, hl[1], hl[2], ticksize_of(s), TRUE)
                  = check_order_fills(OM, s, hl[1], hl[2], ticksize_of(s), FALSE)
            \/ \A a \in {ResolvedWith(s, hl, TRUE)} : \A b \in {ResolvedWith(s, hl, FALSE)} :
                  SameOutcome(s, a, b)

\* an open position with fees, a buy and a sell that both fill: the two
\* orders of resolution differ in entry price and wallet balance and agree
\* on the fills, the quantity, the fees and the margin
C28_Witness ==
    /\ pc = "orders"
    /\ positions[symbols[1]].current_quantity # 0
    /\ params.maker_fee # Zero
    /\ \E hl \in BarsOf(symbols[1]) :
          /\ BothSidesFill(symbols[1], hl)
          /\ \E a \in {ResolvedWith(symbols[1], hl, TRUE)} :
             \E b \in {ResolvedWith(symbols[1], hl, FALSE)} :
                 /\ a.filled # b.filled
                 /\ a.res.om.wallet_balance # b.res.om.wallet_balance
                 /\ a.res.om.positions[symbols[1]].current_quantity # 0
                 /\ SameOutcome(symbols[1], a, b)

---------------------------------------------------------------------------
(* Properties of the inventory bound of generate_limit_orders, checked     *)
(* under SpecOrders.                                                       *)

\* position plus PENDING BUY quantity, and minus position plus PENDING SELL
\* quantity, of the symbol of the call in an order manager
Exposure(om, side) ==
    LET pending == R(pending_quantity(om, om.active_orders[last.symbol], side))
        position == R(om.positions[last.symbol].current_quantity)
    IN  IF side = "BUY" THEN RAdd(position, pending) ELSE RSub(pending, position)

WithinMaxPosition(om) ==
    /\ RLe(Exposure(om, "BUY"), last.max_position)
    /\ RLe(Exposure(om, "SELL"), last.max_position)

\* C29: if position + PENDING BUY quantity <= max_position and -position +
\* PENDING SELL quantity <= max_position hold before a generate_limit_orders
\* call, both hold after it, whatever levels the strategy emits.
C29_MaxPositionKept ==
    (IsGenerate /\ WithinMaxPosition(last.before)) => WithinMaxPosition(OM)

\* a call that starts within the bounds with buy capacity left, admits one
\* buy level larger than that capacity and ends above max_position
C29_Witness ==
    /\ IsGenerate
    /\ WithinMaxPosition(last.before)
    /\ RLt(Zero, StartCapacity("BUY"))
    /\ Len(orders) = Len(last.before.orders) + 1
    /\ orders[Len(orders)].side = "BUY"
    /\ RLt(StartCapacity("BUY"), R(orders[Len(orders)].quantity))
    /\ RLt(last.max_position, Exposure(OM, "BUY"))
    /\ RLe(Exposure(OM, "SELL"), last.max_position)

---------------------------------------------------------------------------
(* Properties of the active set at a fill check, checked under SpecAging.  *)

\* the timestamps an order created at order_timestamp may still be active at
RespectsPolicy(order_timestamp) ==
    IF params.cancel_orders_every_timestamp THEN order_timestamp = t
    ELSE IF params.max_order_age >= 1 THEN t - order_timestamp < params.max_order_age
    ELSE TRUE

\* C30 as stated: at every fill check of timestamp t every order of the
\* active set is PENDING, was created at t when cancel_orders_every_timestamp
\* is set, and otherwise, with max_order_age = A >= 1, is younger than A
\* timestamps.
C30_ActiveOrdersRespectPolicy ==
    pc = "fills" =>
        \A s \in Syms : \A i \in DOMAIN active_orders[s] :
            /\ orders[active_orders[s][i]].status = "PENDING"
            /\ RespectsPolicy(orders[active_orders[s][i]].timestamp)

\* C30 for the symbols whose fill check of t is still to come, symbols[k]
\* and those after it: their active orders are PENDING and respect the
\* policy; the active orders of every symbol respect the policy.
C30_CheckedSymbolRespectsPolicy ==
    pc = "fills" =>
        \A j \in 1..n_symbols : \A i \in DOMAIN active_orders[symbols[j]] :
            LET order == orders[active_orders[symbols[j]][i]]
            IN  /\ j >= k => order.status = "PENDING"
                /\ order.status \in {"PENDING", "FILLED"}
                /\ order.symbol = symbols[j]
                /\ order.timestamp <= t
                /\ RespectsPolicy(order.timestamp)

\* a fill check with an order in its last timestamp of life next to an order
\* created at t, after older orders have been cancelled and filled
C30_Witness ==
    /\ pc = "fills"
    /\ ~params.cancel_orders_every_timestamp
    /\ params.max_order_age >= 2
    /\ \E s \in Syms :
          /\ \E i \in DOMAIN active_orders[s] :
                t - orders[active_orders[s][i]].timestamp = params.max_order_age - 1
          /\ \E i \in DOMAIN active_orders[s] : orders[active_orders[s][i]].timestamp = t
    /\ \E r \in DOMAIN orders : orders[r].status = "CANCELLED"
    /\ \E r \in DOMAIN orders : orders[r].status = "FILLED" /\ orders[r].order_type = "LIMIT"

\* the same check under the policy of cancelling at every timestamp
C30_WitnessEveryTimestamp ==
    /\ pc = "fills"
    /\ params.cancel_orders_every_timestamp
    /\ t >= 2
    /\ \E s \in Syms : active_orders[s] # <<>>
    /\ \E r \in DOMAIN orders : orders[r].status = "CANCELLED"

====
